---- MODULE Spec2Model ----
(***************************************************************************)
(* Divergence analysis of the SPIR-V linter: the control dependence graph  *)
(* (source/opt/control_dependence.{h,cpp}) and the divergence data-flow    *)
(* analysis built on it (source/lint/linter.cpp).                          *)
(***************************************************************************)
EXTENDS Integers, Sequences, FiniteSets, TLC

(***************************************************************************)
(* Bounds of the generated control-flow graphs.                            *)
(***************************************************************************)
\* number of basic blocks of a generated function (labels 1..MaxBlocks)
MaxBlocks == 3
\* number of items at the front of the worklist among which a visit in
\* arbitrary order picks its item
MaxLookahead == 2
\* number of assignments to id after which a walk of PrintDivergenceFlow is
\* no longer followed
MaxHops == 8

(***************************************************************************)
(* Program constants.                                                      *)
(***************************************************************************)
\* ControlDependenceGraph::kPseudoEntryBlock
kPseudoEntryBlock == 0
\* the id of the branch condition of the generated functions and of the
\* paper CFG (%108 = OpConstantTrue)
CondId == 108
\* the id of the switch selector of the generated functions and of the
\* simple CFG (%6 = OpConstant %5 0)
SelId == 6
\* the id of the branch condition of the simple CFG (%8 = OpConstantTrue)
SimpleCondId == 8

(***************************************************************************)
(* Sequences and maps (std::vector, std::map).                             *)
(***************************************************************************)
Range(s) == {s[i] : i \in DOMAIN s}

RECURSIVE Flatten(_)
Flatten(ss) == IF ss = <<>> THEN <<>> ELSE Head(ss) \o Flatten(Tail(ss))

RECURSIVE SetToSeq(_)
\* the elements of a finite set of integers in ascending order
SetToSeq(S) ==
  IF S = {} THEN <<>>
  ELSE LET m == CHOOSE x \in S : \A y \in S : x <= y
       IN <<m>> \o SetToSeq(S \ {m})

\* std::map::operator[] used as a read: a missing key reads as the
\* value-initialised element
MapGet(m, k, dflt) == IF k \in DOMAIN m THEN m[k] ELSE dflt

\* std::map::operator[] used as a write (inserts the key when missing)
MapPut(m, k, v) == [x \in DOMAIN m \cup {k} |-> IF x = k THEN v ELSE m[x]]

(***************************************************************************)
(* Block terminators.  ops is the list of in-operands of the instruction,  *)
(* so GetSingleWordInOperand(i) is ops[i + 1].                             *)
(***************************************************************************)
OpReturn == [op |-> "OpReturn", ops |-> <<>>]
OpBranch(t) == [op |-> "OpBranch", ops |-> <<t>>]
OpBranchConditional(c, t, f) == [op |-> "OpBranchConditional", ops |-> <<c, t, f>>]
\* cases is the flat list <<literal, label, literal, label, ...>>
OpSwitch(s, d, cases) == [op |-> "OpSwitch", ops |-> <<s, d>> \o cases]

GetSingleWordInOperand(inst, i) == inst.ops[i + 1]
NumInOperands(inst) == Len(inst.ops)

\* BasicBlock::ForEachSuccessorLabel: the label operands of the terminator,
\* in operand order
SuccessorLabels(inst) ==
  CASE inst.op = "OpBranch" -> <<inst.ops[1]>>
    [] inst.op = "OpBranchConditional" -> <<inst.ops[2], inst.ops[3]>>
    [] inst.op = "OpSwitch" ->
         <<inst.ops[2]>> \o [i \in 1..((Len(inst.ops) - 2) \div 2) |-> inst.ops[2 + 2 * i]]
    [] OTHER -> <<>>

(***************************************************************************)
(* A control-flow graph: order is the list of block labels of the function *)
(* (the first one is the entry block), term the terminator of each block.  *)
(***************************************************************************)
Blocks(g) == Range(g.order)
Succs(g, b) == Range(SuccessorLabels(g.term[b]))

\* CFG::preds: one entry per CFG edge into label, in block order
Preds(g, label) ==
  Flatten([i \in DOMAIN g.order |->
            LET hits == SelectSeq(SuccessorLabels(g.term[g.order[i]]), LAMBDA s : s = label)
            IN [k \in DOMAIN hits |-> g.order[i]]])

(***************************************************************************)
(* Post-dominator analysis of a function (PostDominatorAnalysis), the      *)
(* input of the graph construction.  Block A post-dominates block B iff    *)
(* every path from B to the exit passes through A; the tree holds the      *)
(* blocks from which an exit (a block without successors) can be reached.  *)
(***************************************************************************)
RECURSIVE BackwardClosure(_, _, _)
\* the blocks outside avoid that reach a block of S without entering avoid
BackwardClosure(g, S, avoid) ==
  LET S2 == S \cup {b \in Blocks(g) \ avoid : Succs(g, b) \cap S # {}}
  IN IF S2 = S THEN S ELSE BackwardClosure(g, S2, avoid)

ExitBlocks(g) == {b \in Blocks(g) : Succs(g, b) = {}}

ReachesExit(g, avoid) == BackwardClosure(g, ExitBlocks(g) \ avoid, avoid)

\* a post-dominates b (a = b included), for blocks of the tree
PostDominates(g, a, b) == a = b \/ b \notin ReachesExit(g, {a})

\* the post-dominator tree: its nodes, the strict post-dominance relation
\* (pairs <<a, b>>: a strictly post-dominates b) and the immediate
\* post-dominator of every node that has one (the others hang below the
\* pseudo-exit, which the traversal does not visit)
PostDominatorTree(g) ==
  LET nodes == ReachesExit(g, {})
      sdom == {p \in nodes \X nodes : p[1] # p[2] /\ PostDominates(g, p[1], p[2])}
      strict(b) == {a \in nodes : <<a, b>> \in sdom}
      inner == {b \in nodes : strict(b) # {}}
  IN [nodes |-> nodes,
      sdom |-> sdom,
      ipdom |-> [b \in inner |->
                  CHOOSE a \in strict(b) : \A c \in strict(b) : c = a \/ <<c, a>> \in sdom]]

\* DominatorTree::StrictlyDominates(a, b) on block ids
StrictlyDominates(pd, a, b) == a # b /\ <<a, b>> \in pd.sdom

\* DominatorTree::Dominates(a, b) on block ids
Dominates(pd, a, b) == (a = b /\ a \in pd.nodes) \/ <<a, b>> \in pd.sdom

\* the children of a tree node (DominatorTreeNode::children_), by label
Children(pd, x) == SetToSeq({z \in DOMAIN pd.ipdom : pd.ipdom[z] = x})

RECURSIVE PostOrderFrom(_, _)
PostOrderFrom(pd, x) ==
  LET cs == Children(pd, x)
  IN Flatten([i \in DOMAIN cs |-> PostOrderFrom(pd, cs[i])]) \o <<x>>

\* post_cbegin() .. post_cend(): the real blocks of the tree, children
\* before parents
PostOrder(pd) ==
  LET roots == SetToSeq(pd.nodes \ DOMAIN pd.ipdom)
  IN Flatten([i \in DOMAIN roots |-> PostOrderFrom(pd, roots[i])])

(***************************************************************************)
(* struct ControlDependence and the classification of an edge.             *)
(***************************************************************************)
\* a ControlDependence whose kind-specific fields are still unset
NewDep(source, target) ==
  [source |-> source, target |-> target, dependence_type |-> "kEntry",
   dependent_value_label |-> 0, switch_case_values |-> <<>>,
   is_switch_default |-> FALSE, condition_value |-> FALSE]

\* ControlDependence::operator==
DepEq(a, b) ==
  IF a.source # b.source \/ a.target # b.target
     \/ a.dependence_type # b.dependence_type
  THEN FALSE
  ELSE CASE a.dependence_type = "kConditionalBranch" ->
              a.dependent_value_label = b.dependent_value_label
              /\ a.condition_value = b.condition_value
         [] a.dependence_type = "kSwitchCase" ->
              a.is_switch_default = b.is_switch_default
              /\ a.switch_case_values = b.switch_case_values
         [] OTHER -> TRUE

\* SwitchCaseValues pushing the label operand instead of the case literal
SwitchCaseValues_PushesLabel(branch, target) ==
  LET num_labels == (NumInOperands(branch) - 2) \div 2
      hits == SelectSeq([i \in 1..num_labels |-> i - 1],
                        LAMBDA i : GetSingleWordInOperand(branch, 2 + 2 * i + 1) = target)
  IN [k \in DOMAIN hits |-> GetSingleWordInOperand(branch, 2 + 2 * hits[k] + 1)]

\* the case literals of a switch whose label is target, in declaration order
SwitchCaseValues(branch, target) ==
  LET num_labels == (NumInOperands(branch) - 2) \div 2
      hits == SelectSeq([i \in 1..num_labels |-> i - 1],
                        LAMBDA i : GetSingleWordInOperand(branch, 2 + 2 * i + 1) = target)
  IN [k \in DOMAIN hits |-> GetSingleWordInOperand(branch, 2 + 2 * hits[k])]

\* ClassifyBranch with the true and the false label exchanged
ClassifyBranch_SwappedLabels(g, source, target) ==
  LET branch == g.term[source]
  IN CASE branch.op = "OpBranchConditional" ->
            [NewDep(source, target) EXCEPT
               !.dependence_type = "kConditionalBranch",
               !.dependent_value_label = GetSingleWordInOperand(branch, 0),
               !.condition_value = (target = GetSingleWordInOperand(branch, 2))]
       [] branch.op = "OpSwitch" ->
            [NewDep(source, target) EXCEPT
               !.dependence_type = "kSwitchCase",
               !.dependent_value_label = GetSingleWordInOperand(branch, 0),
               !.switch_case_values = SwitchCaseValues(branch, target),
               !.is_switch_default = (target = GetSingleWordInOperand(branch, 1))]
       [] OTHER -> [NewDep(source, target) EXCEPT !.dependence_type = "unset"]

\* the classification of a conditional branch or switch edge (lines 59-106)
ClassifyBranch(g, source, target) ==
  LET branch == g.term[source]
  IN CASE branch.op = "OpBranchConditional" ->
            [NewDep(source, target) EXCEPT
               !.dependence_type = "kConditionalBranch",
               !.dependent_value_label = GetSingleWordInOperand(branch, 0),
               !.condition_value = (target = GetSingleWordInOperand(branch, 1))]
       [] branch.op = "OpSwitch" ->
            [NewDep(source, target) EXCEPT
               !.dependence_type = "kSwitchCase",
               !.dependent_value_label = GetSingleWordInOperand(branch, 0),
               !.switch_case_values = SwitchCaseValues(branch, target),
               !.is_switch_default = (target = GetSingleWordInOperand(branch, 1))]
       [] OTHER -> [NewDep(source, target) EXCEPT !.dependence_type = "unset"]

\* ClassifyControlDependence returning before dependence_type is set for
\* the pseudo-entry
ClassifyControlDependence_EntryUnset(g, source, target) ==
  IF source = kPseudoEntryBlock
  THEN [NewDep(source, target) EXCEPT !.dependence_type = "unset"]
  ELSE ClassifyBranch(g, source, target)

\* ClassifyControlDependence
ClassifyControlDependence(g, source, target) ==
  IF source = kPseudoEntryBlock
  THEN NewDep(source, target)
  ELSE ClassifyBranch(g, source, target)

\* TRUE iff one of the assertions of ClassifyControlDependence fires
ClassifyAsserts(g, source, target) ==
  IF source = kPseudoEntryBlock
  THEN FALSE
  ELSE LET branch == g.term[source]
       IN CASE branch.op = "OpBranchConditional" ->
                 LET label_true == GetSingleWordInOperand(branch, 1)
                     label_false == GetSingleWordInOperand(branch, 2)
                 IN IF target = label_true THEN target = label_false
                    ELSE target # label_false
            [] branch.op = "OpSwitch" ->
                 target # GetSingleWordInOperand(branch, 1)
                 /\ SwitchCaseValues(branch, target) = <<>>
            [] OTHER -> TRUE

(***************************************************************************)
(* ControlDependenceGraph::InitializeGraph.                                *)
(***************************************************************************)
\* LocalEdges testing post-dominance instead of strict post-dominance
LocalEdges_NonStrict(g, pd, label) ==
  LET preds == SelectSeq(Preds(g, label), LAMBDA p : ~Dominates(pd, label, p))
  IN [i \in DOMAIN preds |-> ClassifyControlDependence(g, preds[i], label)]

\* the edges a block contributes for its CFG predecessors (lines 160-165)
LocalEdges(g, pd, label) ==
  LET preds == SelectSeq(Preds(g, label), LAMBDA p : ~StrictlyDominates(pd, label, p))
  IN [i \in DOMAIN preds |-> ClassifyControlDependence(g, preds[i], label)]

\* the edge from the pseudo-entry to the function entry (lines 166-171)
EntryEdges(g, label) ==
  IF label = g.order[1]
  THEN <<ClassifyControlDependence(g, kPseudoEntryBlock, label)>>
  ELSE <<>>

\* UpEdgesOf without the assignment dep.target = label
UpEdgesOf_KeepTarget(pd, rev, label, child) ==
  SelectSeq(MapGet(rev, child, <<>>),
            LAMBDA dep : dep.source = kPseudoEntryBlock
                         \/ ~StrictlyDominates(pd, label, dep.source))

\* UpEdgesOf without the strict post-dominance test
UpEdgesOf_NoGate(pd, rev, label, child) ==
  LET child_edges == MapGet(rev, child, <<>>)
  IN [i \in DOMAIN child_edges |-> [child_edges[i] EXCEPT !.target = label]]

\* the edges of one post-dominator-tree child, retargeted to label
\* (lines 173-181)
UpEdgesOf(pd, rev, label, child) ==
  LET child_edges == MapGet(rev, child, <<>>)
      moved == [i \in DOMAIN child_edges |-> [child_edges[i] EXCEPT !.target = label]]
  IN SelectSeq(moved, LAMBDA dep : dep.source = kPseudoEntryBlock
                                   \/ ~StrictlyDominates(pd, label, dep.source))

\* the retargeted edges of all children of label, in child order
UpEdges(pd, rev, label) ==
  LET cs == Children(pd, label)
  IN Flatten([i \in DOMAIN cs |-> UpEdgesOf(pd, rev, label, cs[i])])

\* one iteration of the post-order loop (lines 150-182): the reverse list
\* of label
VisitTreeNode(g, pd, rev, label) ==
  MapGet(rev, label, <<>>) \o LocalEdges(g, pd, label) \o EntryEdges(g, label)
    \o UpEdges(pd, rev, label)

\* the out-degree tally after one iteration of the post-order loop
TallyTreeNode(g, pd, rev, deg, label) ==
  LET added == LocalEdges(g, pd, label) \o UpEdges(pd, rev, label)
      d0 == MapPut(deg, label, 0)
      srcs == {added[i].source : i \in DOMAIN added}
  IN [b \in DOMAIN d0 \cup srcs |->
        MapGet(d0, b, 0) + Cardinality({i \in DOMAIN added : added[i].source = b})]

\* NodeAsserts classifying every CFG predecessor of label
NodeAsserts_NoGate(g, pd, label) ==
  \E i \in DOMAIN Preds(g, label) : ClassifyAsserts(g, Preds(g, label)[i], label)

\* TRUE iff classifying a local edge of label fires an assertion
NodeAsserts(g, pd, label) ==
  \E i \in DOMAIN Preds(g, label) :
     /\ ~StrictlyDominates(pd, label, Preds(g, label)[i])
     /\ ClassifyAsserts(g, Preds(g, label)[i], label)

\* ForwardFromReverse without the loop over the tally (lines 185-187)
ForwardFromReverse_NoReserve(rev, deg) ==
  LET keys == SetToSeq(DOMAIN rev)
      all == Flatten([i \in DOMAIN keys |-> rev[keys[i]]])
      srcs == {all[i].source : i \in DOMAIN all}
  IN [b \in srcs |-> SelectSeq(all, LAMBDA dep : dep.source = b)]

\* the forward graph computed from the reverse graph (lines 185-193): a key
\* for every tallied block, the edges in the order of the reverse map
ForwardFromReverse(rev, deg) ==
  LET keys == SetToSeq(DOMAIN rev)
      all == Flatten([i \in DOMAIN keys |-> rev[keys[i]]])
      srcs == {all[i].source : i \in DOMAIN all}
  IN [b \in DOMAIN deg \cup srcs |-> SelectSeq(all, LAMBDA dep : dep.source = b)]

(***************************************************************************)
(* Lookups of ControlDependenceGraph.  std::map::at on a missing key       *)
(* throws std::out_of_range: the outcome "out_of_range".                   *)
(***************************************************************************)
\* GetDependents reading the map with operator[] instead of at()
GetDependents_Subscript(fwd, block) ==
  [outcome |-> "ok", list |-> MapGet(fwd, block, <<>>)]

GetDependents(fwd, block) ==
  IF block \in DOMAIN fwd THEN [outcome |-> "ok", list |-> fwd[block]]
  ELSE [outcome |-> "out_of_range", list |-> <<>>]

GetDependees(rev, block) ==
  IF block \in DOMAIN rev THEN [outcome |-> "ok", list |-> rev[block]]
  ELSE [outcome |-> "out_of_range", list |-> <<>>]

IsDependent(fwd, rev, a, b) ==
  IF a \notin DOMAIN fwd
  THEN [outcome |-> "ok", value |-> FALSE]
  ELSE LET a_dependees == GetDependees(rev, a)
       IN IF a_dependees.outcome # "ok"
          THEN [outcome |-> "out_of_range", value |-> FALSE]
          ELSE [outcome |-> "ok",
                value |-> \E i \in DOMAIN a_dependees.list : a_dependees.list[i].source = b]

(***************************************************************************)
(* The functions analysed: the two functions of the unit tests and every   *)
(* function of MaxBlocks blocks whose terminators are drawn from           *)
(* Terminators.                                                            *)
(***************************************************************************)
\* TEST(ControlDependenceTest, DependenceSimpleCFG)
SimpleCFG ==
  [name |-> "simple",
   order |-> <<10, 11, 12, 13, 14, 15, 16, 17, 18, 19>>,
   term |-> (10 :> OpBranch(11)
             @@ 11 :> OpSwitch(SelId, 12, <<1, 13>>)
             @@ 12 :> OpBranch(14)
             @@ 13 :> OpBranch(14)
             @@ 14 :> OpBranchConditional(SimpleCondId, 15, 16)
             @@ 15 :> OpBranch(19)
             @@ 16 :> OpBranchConditional(SimpleCondId, 17, 18)
             @@ 17 :> OpBranch(18)
             @@ 18 :> OpBranch(19)
             @@ 19 :> OpReturn)]

\* TEST(ControlDependenceTest, DependencePaperCFG)
PaperCFG ==
  [name |-> "paper",
   order |-> <<1, 2, 3, 4, 5, 6, 7, 8, 9, 10, 11, 12, 13>>,
   term |-> (1 :> OpBranch(2)
             @@ 2 :> OpBranchConditional(CondId, 3, 7)
             @@ 3 :> OpBranchConditional(CondId, 4, 5)
             @@ 4 :> OpBranch(6)
             @@ 5 :> OpBranch(6)
             @@ 6 :> OpBranch(8)
             @@ 7 :> OpBranch(8)
             @@ 8 :> OpBranch(9)
             @@ 9 :> OpBranchConditional(CondId, 10, 11)
             @@ 10 :> OpBranch(11)
             @@ 11 :> OpBranchConditional(CondId, 12, 9)
             @@ 12 :> OpBranchConditional(CondId, 13, 2)
             @@ 13 :> OpReturn)]

\* a function none of whose blocks reaches an exit
LoopCFG ==
  [name |-> "loop",
   order |-> <<1, 2>>,
   term |-> (1 :> OpBranch(2) @@ 2 :> OpBranch(1))]

GenLabels == 1..MaxBlocks

\* the terminators of the generated functions: a return, a branch, a
\* conditional branch, or a switch with two cases that share a label
Terminators ==
  {OpReturn}
  \cup {OpBranch(t) : t \in GenLabels}
  \cup {OpBranchConditional(CondId, t, f) : t \in GenLabels, f \in GenLabels}
  \cup {OpSwitch(SelId, d, <<2, l, 1, l>>) : d \in GenLabels, l \in GenLabels}

\* the generated functions: the last block returns, every other block ends
\* in any terminator
GeneratedCFGs ==
  {[name |-> "generated",
    order |-> [i \in GenLabels |-> i],
    term |-> [b \in GenLabels |-> IF b = MaxBlocks THEN OpReturn ELSE t[b]]] :
     t \in [GenLabels \ {MaxBlocks} -> Terminators]}

\* the labels a lookup is made for: the pseudo-entry, the first and the
\* last block of the function, and one label that is no block of it
LookupIds(g) ==
  {kPseudoEntryBlock, g.order[1], g.order[Len(g.order)]}
  \cup {1 + CHOOSE m \in Blocks(g) : \A b \in Blocks(g) : b <= m}

(***************************************************************************)
(* State.                                                                  *)
(***************************************************************************)
VARIABLES
  cfg,             \* the function under analysis (CFG)
  pdom,            \* its post-dominator analysis
  pc,              \* position of InitializeGraph
  todo,            \* the blocks the post-order traversal has yet to visit
  reverse_nodes_,  \* ControlDependenceGraph::reverse_nodes_
  forward_nodes_,  \* ControlDependenceGraph::forward_nodes_
  degree,          \* the out-degree tally of InitializeGraph
  asserted,        \* TRUE once an assertion of the construction has fired
  ret,             \* the outcome of the last lookup
  ir,              \* the instructions of the module under analysis
  blocks_,         \* DivergenceDataFlowAnalysis::blocks_
  values_,         \* DivergenceDataFlowAnalysis::values_
  worklist_,       \* DivergenceDataFlowAnalysis::worklist_
  on_worklist_,    \* DivergenceDataFlowAnalysis::on_worklist_
  diagnostics,     \* the messages handed to the consumer, in order
  returned,        \* what Linter::Run has returned ("none" before it returns)
  walk             \* the position and locals of a call of PrintDivergenceFlow

\* the state of the data-flow analysis and of the linter
dfVars == <<ir, blocks_, values_, worklist_, on_worklist_, diagnostics, returned, walk>>

vars == <<cfg, pdom, pc, todo, reverse_nodes_, forward_nodes_, degree, asserted, ret,
          ir, blocks_, values_, worklist_, on_worklist_, diagnostics, returned, walk>>

\* no call of PrintDivergenceFlow is under way
NoWalk == [at |-> "idle", id_type |-> "kIDBlock", id |-> 0, start_type |-> "kIDBlock",
           start |-> 0, hops |-> 0, out |-> <<>>]

\* no instructions: the graph is built from the CFG alone
NoIR == [types_values |-> <<>>, params |-> <<>>, body |-> <<>>, functions |-> <<>>]

NoRet == [op |-> "none", a |-> 0, b |-> 0, outcome |-> "none", list |-> <<>>, value |-> FALSE]

\* a function has been built and its post-dominator tree computed; the
\* graph is default-constructed
Init ==
  /\ cfg \in GeneratedCFGs \cup {SimpleCFG, PaperCFG, LoopCFG}
  /\ pdom = PostDominatorTree(cfg)
  /\ pc = "start"
  /\ todo = <<>>
  /\ reverse_nodes_ = <<>>
  /\ forward_nodes_ = <<>>
  /\ degree = <<>>
  /\ asserted = FALSE
  /\ ret = NoRet
  /\ ir = NoIR
  /\ blocks_ = <<>>
  /\ values_ = <<>>
  /\ worklist_ = <<>>
  /\ on_worklist_ = <<>>
  /\ diagnostics = <<>>
  /\ returned = "none"
  /\ walk = NoWalk

\* InitializeGraph, lines 142-147: the tree must hold a real block
BeginInitializeGraph ==
  /\ pc = "start"
  /\ IF pdom.nodes = {}
     THEN /\ pc' = "abort"
          /\ asserted' = TRUE
          /\ UNCHANGED <<todo, reverse_nodes_, degree>>
     ELSE /\ pc' = "reverse"
          /\ todo' = PostOrder(pdom)
          /\ degree' = (kPseudoEntryBlock :> 1)
          /\ reverse_nodes_' = (kPseudoEntryBlock :> <<>>)
          /\ UNCHANGED asserted
  /\ UNCHANGED <<cfg, pdom, forward_nodes_, ret>>
  /\ UNCHANGED dfVars

\* InitializeGraph, lines 148-183: one iteration of the post-order loop
ReversePassStep ==
  /\ pc = "reverse"
  /\ todo # <<>>
  /\ LET label == Head(todo)
     IN /\ reverse_nodes_' =
             MapPut(reverse_nodes_, label, VisitTreeNode(cfg, pdom, reverse_nodes_, label))
        /\ degree' = TallyTreeNode(cfg, pdom, reverse_nodes_, degree, label)
        /\ asserted' = (asserted \/ NodeAsserts(cfg, pdom, label))
  /\ todo' = Tail(todo)
  /\ UNCHANGED <<cfg, pdom, pc, forward_nodes_, ret>>
  /\ UNCHANGED dfVars

\* InitializeGraph, lines 184-193: the forward graph
ForwardPass ==
  /\ pc = "reverse"
  /\ todo = <<>>
  /\ forward_nodes_' = ForwardFromReverse(reverse_nodes_, degree)
  /\ pc' = "done"
  /\ UNCHANGED <<cfg, pdom, todo, reverse_nodes_, degree, asserted, ret>>
  /\ UNCHANGED dfVars

\* a call of GetDependents on the finished graph
CallGetDependents ==
  /\ pc = "done"
  /\ \E block \in LookupIds(cfg) :
       LET r == GetDependents(forward_nodes_, block)
       IN ret' = [NoRet EXCEPT !.op = "GetDependents", !.a = block,
                               !.outcome = r.outcome, !.list = r.list]
  /\ pc' = "returned"
  /\ UNCHANGED <<cfg, pdom, todo, reverse_nodes_, forward_nodes_, degree, asserted>>
  /\ UNCHANGED dfVars

\* a call of GetDependees on the finished graph
CallGetDependees ==
  /\ pc = "done"
  /\ \E block \in LookupIds(cfg) :
       LET r == GetDependees(reverse_nodes_, block)
       IN ret' = [NoRet EXCEPT !.op = "GetDependees", !.a = block,
                               !.outcome = r.outcome, !.list = r.list]
  /\ pc' = "returned"
  /\ UNCHANGED <<cfg, pdom, todo, reverse_nodes_, forward_nodes_, degree, asserted>>
  /\ UNCHANGED dfVars

\* a call of IsDependent on the finished graph
CallIsDependent ==
  /\ pc = "done"
  /\ \E a \in LookupIds(cfg), b \in LookupIds(cfg) :
       LET r == IsDependent(forward_nodes_, reverse_nodes_, a, b)
       IN ret' = [NoRet EXCEPT !.op = "IsDependent", !.a = a, !.b = b,
                               !.outcome = r.outcome, !.value = r.value]
  /\ pc' = "returned"
  /\ UNCHANGED <<cfg, pdom, todo, reverse_nodes_, forward_nodes_, degree, asserted>>
  /\ UNCHANGED dfVars

\* the caller drops the outcome of a lookup and goes on
Resume ==
  /\ pc = "returned"
  /\ pc' = "done"
  /\ ret' = NoRet
  /\ UNCHANGED <<cfg, pdom, todo, reverse_nodes_, forward_nodes_, degree, asserted>>
  /\ UNCHANGED dfVars

Next ==
  \/ BeginInitializeGraph
  \/ ReversePassStep
  \/ ForwardPass
  \/ CallGetDependents
  \/ CallGetDependees
  \/ CallIsDependent
  \/ Resume

Spec == Init /\ [][Next]_vars

(***************************************************************************)
(* Vocabulary of the properties of the control dependence graph.           *)
(***************************************************************************)
\* InitializeGraph has returned
GraphBuilt == pc \in {"done", "returned"}

AllEdgesOf(m) == UNION {Range(m[k]) : k \in DOMAIN m}

\* every edge of either view
AllEdges == AllEdgesOf(forward_nodes_) \cup AllEdgesOf(reverse_nodes_)

\* how often the edge e occurs in the list of key k of the map m
Occurrences(m, k, e) ==
  IF k \in DOMAIN m THEN Cardinality({i \in DOMAIN m[k] : DepEq(m[k][i], e)}) ELSE 0

\* the target of e is no label of the terminator of its source: the edge was
\* moved up the post-dominator tree
Retargeted(e) ==
  /\ e.source # kPseudoEntryBlock
  /\ e.target \notin Succs(cfg, e.source)

\* C1: after InitializeGraph an edge occurs in the forward list of its
\* source exactly as often as in the reverse list of its target, and in no
\* other list of either view
C1_ForwardReverseSymmetry ==
  GraphBuilt =>
    \A e \in AllEdges :
       /\ Occurrences(forward_nodes_, e.source, e) = Occurrences(reverse_nodes_, e.target, e)
       /\ Occurrences(forward_nodes_, e.source, e) >= 1
       /\ \A k \in DOMAIN forward_nodes_ \ {e.source} : Occurrences(forward_nodes_, k, e) = 0
       /\ \A k \in DOMAIN reverse_nodes_ \ {e.target} : Occurrences(reverse_nodes_, k, e) = 0

C1_Witness ==
  /\ pc = "done"
  /\ cfg.name = "generated"
  /\ \E e \in AllEdges : Retargeted(e) /\ e.dependence_type = "kSwitchCase"
  /\ \E e \in AllEdges : e.source = kPseudoEntryBlock /\ e.target # cfg.order[1]

\* C2: no edge of the graph whose source is a real block has a target that
\* strictly post-dominates its source, be the edge local or retargeted
C2_PostDominanceGating ==
  GraphBuilt =>
    \A e \in AllEdges :
       e.source # kPseudoEntryBlock =>
         ~(e.target # e.source /\ PostDominates(cfg, e.target, e.source)
           /\ e.source \in pdom.nodes)

C2_Witness ==
  /\ pc = "done"
  /\ cfg.name = "generated"
  /\ \E e \in AllEdges : Retargeted(e)
  /\ \E e \in AllEdges : e.source # kPseudoEntryBlock /\ ~Retargeted(e)

\* C3: an edge has the pseudo-entry as its source iff its type is kEntry,
\* also after it was retargeted to a post-dominator-tree parent
C3_EntryEdges ==
  GraphBuilt =>
    \A e \in AllEdges :
       (e.source = kPseudoEntryBlock) <=> (e.dependence_type = "kEntry")

C3_Witness ==
  /\ pc = "done"
  /\ \E e \in AllEdges : e.dependence_type = "kEntry" /\ e.target # cfg.order[1]
  /\ \E e \in AllEdges : e.dependence_type = "kConditionalBranch" /\ Retargeted(e)

(***************************************************************************)
(* Direct control dependence, from the definition in control_dependence.h. *)
(***************************************************************************)
RECURSIVE ForwardWithin(_, _, _)
\* the blocks reached from the blocks of S by CFG edges whose source lies
\* in region
ForwardWithin(g, S, region) ==
  LET S2 == S \cup UNION {Succs(g, b) : b \in S \cap region}
  IN IF S2 = S THEN S ELSE ForwardWithin(g, S2, region)

\* there is a path B -> b_1 -> ... -> b_n -> A (n >= 0) all of whose inner
\* blocks b_i are post-dominated by A
PathThroughPostDominated(g, A, B) ==
  LET region == {b \in Blocks(g) \ {A} : b \in ReachesExit(g, {}) /\ PostDominates(g, A, b)}
  IN A \in ForwardWithin(g, Succs(g, B), region)

\* B has a CFG successor that is A or is post-dominated by A
SuccessorPostDominated(g, A, B) ==
  \E Y \in Succs(g, B) : Y \in ReachesExit(g, {}) /\ PostDominates(g, A, Y)

StrictlyPostDominates(g, A, B) == A # B /\ PostDominates(g, A, B)

EveryBlockReachesExit(g) == ReachesExit(g, {}) = Blocks(g)

\* C4: in a function all of whose blocks reach the exit, IsDependent(A, B)
\* holds for real blocks A and B iff A does not strictly post-dominate B and
\* a path leads from B to A through blocks that A post-dominates; that is,
\* iff B has a successor that is A or is post-dominated by A
C4_DirectControlDependence ==
  (pc = "done" /\ EveryBlockReachesExit(cfg)) =>
    \A A \in Blocks(cfg), B \in Blocks(cfg) :
       LET r == IsDependent(forward_nodes_, reverse_nodes_, A, B)
       IN /\ r.outcome = "ok"
          /\ r.value <=> (~StrictlyPostDominates(cfg, A, B)
                          /\ PathThroughPostDominated(cfg, A, B))
          /\ r.value <=> (~StrictlyPostDominates(cfg, A, B)
                          /\ SuccessorPostDominated(cfg, A, B))

\* a function in which a block depends on itself, and in which dependence
\* is not transitive
C4_Witness ==
  /\ pc = "done"
  /\ EveryBlockReachesExit(cfg)
  /\ \E A \in Blocks(cfg) : IsDependent(forward_nodes_, reverse_nodes_, A, A).value
  /\ \E A \in Blocks(cfg), B \in Blocks(cfg), C \in Blocks(cfg) :
        /\ A # B /\ B # C /\ A # C
        /\ IsDependent(forward_nodes_, reverse_nodes_, A, B).value
        /\ IsDependent(forward_nodes_, reverse_nodes_, B, C).value
        /\ ~IsDependent(forward_nodes_, reverse_nodes_, A, C).value

(***************************************************************************)
(* The unit tests of the graph (control_dependence_test).                  *)
(***************************************************************************)
MakeCondBranchDep(source, target, condition_label, value) ==
  [NewDep(source, target) EXCEPT
     !.dependence_type = "kConditionalBranch",
     !.dependent_value_label = condition_label,
     !.condition_value = value]

MakeSwitchCaseDep(source, target, switch_value, is_default, cases) ==
  [NewDep(source, target) EXCEPT
     !.dependence_type = "kSwitchCase",
     !.dependent_value_label = switch_value,
     !.is_switch_default = is_default,
     !.switch_case_values = cases]

MakeEntryDep(target) == NewDep(kPseudoEntryBlock, target)

\* operator< of the test: lexicographic on (source, target)
DepLess(dep1, dep2) ==
  IF dep1.source # dep2.source THEN dep1.source < dep2.source
  ELSE dep1.target < dep2.target

RECURSIVE SortEdges(_)
\* std::sort by DepLess
SortEdges(s) ==
  IF s = <<>> THEN <<>>
  ELSE LET i == CHOOSE i \in DOMAIN s : \A j \in DOMAIN s : ~DepLess(s[j], s[i])
       IN <<s[i]>> \o SortEdges(SubSeq(s, 1, i - 1) \o SubSeq(s, i + 1, Len(s)))

\* ElementsAreArray: the same length and equal elements under operator==
ElementsAre(actual, expected) ==
  /\ Len(actual) = Len(expected)
  /\ \A i \in DOMAIN actual : DepEq(actual[i], expected[i])

\* GatherEdges: the sorted edges of the forward view, and whether the
\* sorted edges of the reverse view are the same
GatherEdges(fwd, rev) ==
  LET labels == SetToSeq(DOMAIN fwd)
      edges == SortEdges(Flatten([i \in DOMAIN labels |-> GetDependents(fwd, labels[i]).list]))
      reverse_edges ==
        SortEdges(Flatten([i \in DOMAIN labels |-> GetDependees(rev, labels[i]).list]))
  IN [edges |-> edges,
      same |-> /\ \A i \in DOMAIN labels : GetDependees(rev, labels[i]).outcome = "ok"
               /\ ElementsAre(reverse_edges, edges)]

\* the edges DependencePaperCFG expects
PaperExpected ==
  <<MakeEntryDep(1), MakeEntryDep(2), MakeEntryDep(8), MakeEntryDep(9),
    MakeEntryDep(11), MakeEntryDep(12), MakeEntryDep(13),
    MakeCondBranchDep(2, 3, CondId, TRUE),
    MakeCondBranchDep(2, 6, CondId, TRUE),
    MakeCondBranchDep(2, 7, CondId, FALSE),
    MakeCondBranchDep(3, 4, CondId, TRUE),
    MakeCondBranchDep(3, 5, CondId, FALSE),
    MakeCondBranchDep(9, 10, CondId, TRUE),
    MakeCondBranchDep(11, 9, CondId, FALSE),
    MakeCondBranchDep(11, 11, CondId, FALSE),
    MakeCondBranchDep(12, 2, CondId, FALSE),
    MakeCondBranchDep(12, 8, CondId, FALSE),
    MakeCondBranchDep(12, 9, CondId, FALSE),
    MakeCondBranchDep(12, 11, CondId, FALSE),
    MakeCondBranchDep(12, 12, CondId, FALSE)>>

\* the edges DependenceSimpleCFG expects
SimpleExpected ==
  <<MakeEntryDep(10), MakeEntryDep(11), MakeEntryDep(14), MakeEntryDep(19),
    MakeSwitchCaseDep(11, 12, SelId, TRUE, <<>>),
    MakeSwitchCaseDep(11, 13, SelId, FALSE, <<1>>),
    MakeCondBranchDep(14, 15, SimpleCondId, TRUE),
    MakeCondBranchDep(14, 16, SimpleCondId, FALSE),
    MakeCondBranchDep(14, 18, SimpleCondId, FALSE),
    MakeCondBranchDep(16, 17, SimpleCondId, TRUE)>>

\* C5: for the CFG of the Cytron paper InitializeGraph yields exactly the
\* twenty edges of the test, with their polarity and the condition %108,
\* in both views
C5_PaperCFG ==
  (pc = "done" /\ cfg.name = "paper") =>
    LET got == GatherEdges(forward_nodes_, reverse_nodes_)
    IN got.same /\ ElementsAre(got.edges, PaperExpected)

C5_Witness ==
  /\ pc = "done"
  /\ cfg.name = "paper"
  /\ Len(GatherEdges(forward_nodes_, reverse_nodes_).edges) = Len(PaperExpected)

\* C6: for the simple CFG InitializeGraph yields exactly the ten edges of
\* the test (the switch edges with their case values and default flag), and
\* 14 does not depend on 11, 17 not on 14, 19 not on 14, 12 not on the
\* pseudo-entry
C6_SimpleCFG ==
  (pc = "done" /\ cfg.name = "simple") =>
    LET got == GatherEdges(forward_nodes_, reverse_nodes_)
        dep(a, b) == IsDependent(forward_nodes_, reverse_nodes_, a, b)
    IN /\ got.same
       /\ ElementsAre(got.edges, SimpleExpected)
       /\ \A p \in {<<14, 11>>, <<17, 14>>, <<19, 14>>, <<12, 0>>} :
             dep(p[1], p[2]) = [outcome |-> "ok", value |-> FALSE]
       /\ \A p \in {<<12, 11>>, <<13, 11>>, <<15, 14>>, <<16, 14>>, <<18, 14>>,
                    <<17, 16>>, <<10, 0>>, <<11, 0>>, <<14, 0>>, <<19, 0>>} :
             dep(p[1], p[2]) = [outcome |-> "ok", value |-> TRUE]

C6_Witness ==
  /\ pc = "done"
  /\ cfg.name = "simple"
  /\ Len(GatherEdges(forward_nodes_, reverse_nodes_).edges) = Len(SimpleExpected)

\* C7: after InitializeGraph the pseudo-entry and every block of the
\* post-dominator tree are keys of both maps, and the two maps have the same
\* keys
C7_KeysOfBothMaps ==
  GraphBuilt =>
    /\ kPseudoEntryBlock \in DOMAIN forward_nodes_ \cap DOMAIN reverse_nodes_
    /\ pdom.nodes \subseteq DOMAIN forward_nodes_ \cap DOMAIN reverse_nodes_
    /\ DOMAIN forward_nodes_ = DOMAIN reverse_nodes_

\* a block of the tree that has neither dependents nor dependees
C7_Witness ==
  /\ pc = "done"
  /\ cfg.name = "generated"
  /\ \E b \in pdom.nodes :
        /\ b \in DOMAIN forward_nodes_ /\ forward_nodes_[b] = <<>>
        /\ b \in DOMAIN reverse_nodes_ /\ reverse_nodes_[b] = <<>>

\* the pseudo-entry or a block of the post-dominator tree
InGraph(id) == id = kPseudoEntryBlock \/ id \in pdom.nodes

\* C8: GetDependents and GetDependees end in an error for an id that is not
\* in the graph and in an empty list for an id of the graph without edges;
\* IsDependent(a, b) returns false without error when a is not in the graph
C8_LookupOfMissingBlock ==
  pc = "returned" =>
    /\ ret.op = "GetDependents" =>
         IF InGraph(ret.a)
         THEN /\ ret.outcome = "ok"
              /\ (\A e \in AllEdges : e.source # ret.a) => ret.list = <<>>
         ELSE ret.outcome = "out_of_range"
    /\ ret.op = "GetDependees" =>
         IF InGraph(ret.a)
         THEN /\ ret.outcome = "ok"
              /\ (\A e \in AllEdges : e.target # ret.a) => ret.list = <<>>
         ELSE ret.outcome = "out_of_range"
    /\ (ret.op = "IsDependent" /\ ~InGraph(ret.a)) =>
         (ret.outcome = "ok" /\ ret.value = FALSE)

\* a lookup of the dependents of a block of the function that is not in the
\* graph
C8_Witness ==
  /\ pc = "returned"
  /\ ret.op = "GetDependents"
  /\ ret.a \in Blocks(cfg)
  /\ ~InGraph(ret.a)
  /\ ret.outcome = "out_of_range"

(***************************************************************************)
(* Instructions of the module under analysis (source/lint/linter.cpp).     *)
(* An instruction is identified by key; result is its result id (0: none), *)
(* ins the ids among its in-operands, in operand order; sc is the storage  *)
(* class of the pointee type of the pointer an OpLoad reads, flat whether  *)
(* its result id is decorated Flat.                                        *)
(***************************************************************************)
Inst(key, op, result, ins) ==
  [key |-> key, op |-> op, result |-> result, ins |-> ins, sc |-> "", flat |-> FALSE]

OpLoad(result, pointer, sc, flat) ==
  [key |-> <<"v", result>>, op |-> "OpLoad", result |-> result, ins |-> <<pointer>>,
   sc |-> sc, flat |-> flat]

\* an instruction with a result id, in a block or at module level
ValueInst(op, result, ins) == Inst(<<"v", result>>, op, result, ins)

\* BasicBlock::GetLabelInst
LabelInst(b) == Inst(<<"l", b>>, "OpLabel", b, <<>>)

\* the ids among the in-operands of a terminator
IdOperands(term) ==
  CASE term.op = "OpSwitch" ->
         <<term.ops[1]>> \o SuccessorLabels(term)
    [] OTHER -> term.ops

\* BasicBlock::terminator
TermInst(g, b) == Inst(<<"t", b>>, g.term[b].op, 0, IdOperands(g.term[b]))

\* Instruction::IsBlockTerminator
IsBlockTerminator(inst) ==
  inst.op \in {"OpBranch", "OpBranchConditional", "OpSwitch", "OpReturn"}

\* Instruction::HasResultId
HasResultId(inst) == inst.result # 0

\* the instructions of a block in order: its label, its body, its
\* terminator
BlockInstructions(m, g, b) == <<LabelInst(b)>> \o m.body[b] \o <<TermInst(g, b)>>

\* every instruction of the module, in module order
ModuleInstructions(m, g) ==
  m.types_values \o m.params
    \o Flatten([i \in DOMAIN g.order |-> BlockInstructions(m, g, g.order[i])])

\* DefUseManager::ForEachUser: the instructions that use the result id of
\* inst, in module order
Users(m, g, inst) ==
  IF ~HasResultId(inst) THEN <<>>
  ELSE SelectSeq(ModuleInstructions(m, g), LAMBDA u : inst.result \in Range(u.ins))

\* the instruction with the given key
InstOf(m, g, key) ==
  LET all == ModuleInstructions(m, g)
  IN all[CHOOSE i \in DOMAIN all : all[i].key = key]

\* IRContext::get_instr_block: the label of the block of a terminator
BlockOfTerminator(inst) == inst.key[2]

(***************************************************************************)
(* CFG::ForEachBlockInReversePostOrder.                                    *)
(***************************************************************************)
RECURSIVE DepthFirst(_, _, _)
\* depth-first search from the blocks of pending, in order; acc holds the
\* blocks seen and the post-order so far; the search below a block is
\* evaluated once
DepthFirst(g, pending, acc) ==
  IF pending = <<>>
  THEN acc
  ELSE LET s == Head(pending)
       IN IF s \in acc.seen
          THEN DepthFirst(g, Tail(pending), acc)
          ELSE CHOOSE r \in
                 {DepthFirst(g, Tail(pending),
                             [seen |-> below.seen, post |-> Append(below.post, s)]) :
                    below \in {DepthFirst(g, SuccessorLabels(g.term[s]),
                                          [seen |-> acc.seen \cup {s}, post |-> acc.post])}} :
                 TRUE

Reverse(s) == [i \in DOMAIN s |-> s[Len(s) + 1 - i]]

ReversePostOrder(g) ==
  Reverse(DepthFirst(g, <<g.order[1]>>, [seen |-> {}, post |-> <<>>]).post)

(***************************************************************************)
(* The classifier.                                                         *)
(***************************************************************************)
\* InstructionIsDivergent answering true for every load
InstructionIsDivergent_AnyLoad(inst) ==
  IF inst.op = "OpLoad"
  THEN TRUE
  ELSE inst.op \in {"OpFunctionParameter"}

\* InstructionIsDivergent without the test of the Flat decoration
InstructionIsDivergent_IgnoresFlat(inst) ==
  IF inst.op = "OpLoad"
  THEN inst.sc \in {"Function", "Generic", "AtomicCounter", "StorageBuffer",
                    "PhysicalStorageBuffer", "Output", "Input"}
  ELSE inst.op \in {"OpFunctionParameter"}

\* InstructionIsDivergent
InstructionIsDivergent(inst) ==
  IF inst.op = "OpLoad"
  THEN CASE inst.sc \in {"Function", "Generic", "AtomicCounter", "StorageBuffer",
                         "PhysicalStorageBuffer", "Output"} -> TRUE
         [] inst.sc = "Input" -> ~inst.flat
         [] OTHER -> FALSE
  ELSE inst.op \in {"OpFunctionParameter"}

\* InstructionIsNeverDivergent
InstructionIsNeverDivergent(inst) == inst.op \in {"OpSubgroupBallotKHR"}

\* InstructionHasDerivative
InstructionHasDerivative(inst) ==
  inst.op \in {"OpImageSampleImplicitLod", "OpImageSampleDrefImplicitLod",
               "OpImageSampleProjImplicitLod", "OpImageSampleProjDrefImplicitLod",
               "OpImageSparseSampleImplicitLod", "OpImageSparseSampleDrefImplicitLod",
               "OpImageSparseSampleProjImplicitLod",
               "OpImageSparseSampleProjDrefImplicitLod",
               "OpDPdx", "OpDPdy", "OpFwidth", "OpDPdxFine", "OpDPdyFine",
               "OpFwidthFine", "OpDPdxCoarse", "OpDPdyCoarse", "OpFwidthCoarse"}

(***************************************************************************)
(* DivergenceDataFlowAnalysis.                                             *)
(***************************************************************************)
\* struct DivergenceEdge
DivergenceEdge(id_type, id, source_id) ==
  [id_type |-> id_type, id |-> id, source_id |-> source_id]

\* the outcome of a visit: the result and the maps after it, or the
\* exception that ended it
Visited(result, blocks, values) ==
  [outcome |-> "ok", result |-> result, blocks |-> blocks, values |-> values]

Thrown(blocks, values) ==
  [outcome |-> "out_of_range", result |-> "kResultFixed", blocks |-> blocks,
   values |-> values]

\* VisitBlock without the test for a block that is already divergent
VisitBlock_Revisits(rev, blocks, values, id) ==
  LET dependees == GetDependees(rev, id)
      deps == dependees.list
      hit(dep) == \/ dep.source \in DOMAIN blocks
                  \/ (dep.dependence_type # "kEntry"
                      /\ dep.dependent_value_label \in DOMAIN values)
      hits == {i \in DOMAIN deps : hit(deps[i])}
  IN IF dependees.outcome # "ok" THEN Thrown(blocks, values)
     ELSE IF hits = {} THEN Visited("kResultFixed", blocks, values)
     ELSE LET dep == deps[CHOOSE i \in hits : \A j \in hits : i <= j]
          IN IF dep.source \in DOMAIN blocks
             THEN Visited("kResultChanged",
                          MapPut(blocks, id, DivergenceEdge("kIDBlock", dep.source, 0)),
                          values)
             ELSE Visited("kResultChanged",
                          MapPut(blocks, id,
                                 DivergenceEdge("kIDValue", dep.dependent_value_label,
                                                dep.source)),
                          values)

\* VisitBlock storing the visited block as the block of the branch
VisitBlock_StoresTarget(rev, blocks, values, id) ==
  IF id \in DOMAIN blocks
  THEN Visited("kResultFixed", blocks, values)
  ELSE LET dependees == GetDependees(rev, id)
           deps == dependees.list
           hit(dep) == \/ dep.source \in DOMAIN blocks
                       \/ (dep.dependence_type # "kEntry"
                           /\ dep.dependent_value_label \in DOMAIN values)
           hits == {i \in DOMAIN deps : hit(deps[i])}
       IN IF dependees.outcome # "ok" THEN Thrown(blocks, values)
          ELSE IF hits = {} THEN Visited("kResultFixed", blocks, values)
          ELSE LET dep == deps[CHOOSE i \in hits : \A j \in hits : i <= j]
               IN IF dep.source \in DOMAIN blocks
                  THEN Visited("kResultChanged",
                               MapPut(blocks, id, DivergenceEdge("kIDBlock", dep.source, 0)),
                               values)
                  ELSE Visited("kResultChanged",
                               MapPut(blocks, id,
                                      DivergenceEdge("kIDValue", dep.dependent_value_label,
                                                     dep.target)),
                               values)

\* VisitBlock taking the pseudo-entry block for a divergent block
VisitBlock_EntryDiverges(rev, blocks, values, id) ==
  IF id \in DOMAIN blocks
  THEN Visited("kResultFixed", blocks, values)
  ELSE LET dependees == GetDependees(rev, id)
           deps == dependees.list
           hit(dep) == \/ dep.source \in DOMAIN blocks \cup {kPseudoEntryBlock}
                       \/ (dep.dependence_type # "kEntry"
                           /\ dep.dependent_value_label \in DOMAIN values)
           hits == {i \in DOMAIN deps : hit(deps[i])}
       IN IF dependees.outcome # "ok" THEN Thrown(blocks, values)
          ELSE IF hits = {} THEN Visited("kResultFixed", blocks, values)
          ELSE LET dep == deps[CHOOSE i \in hits : \A j \in hits : i <= j]
               IN IF dep.source \in DOMAIN blocks \cup {kPseudoEntryBlock}
                  THEN Visited("kResultChanged",
                               MapPut(blocks, id, DivergenceEdge("kIDBlock", dep.source, 0)),
                               values)
                  ELSE Visited("kResultChanged",
                               MapPut(blocks, id,
                                      DivergenceEdge("kIDValue", dep.dependent_value_label,
                                                     dep.source)),
                               values)

\* VisitBlock deciding on the condition as the earlier IsValueDivergent
\* does: every queried value is divergent, and is inserted as a root when
\* it is not yet a key
VisitBlock_Placeholder(rev, blocks, values, id) ==
  IF id \in DOMAIN blocks
  THEN Visited("kResultFixed", blocks, values)
  ELSE LET dependees == GetDependees(rev, id)
           deps == dependees.list
           hit(dep) == dep.source \in DOMAIN blocks \/ dep.dependence_type # "kEntry"
           hits == {i \in DOMAIN deps : hit(deps[i])}
       IN IF dependees.outcome # "ok" THEN Thrown(blocks, values)
          ELSE IF hits = {} THEN Visited("kResultFixed", blocks, values)
          ELSE LET dep == deps[CHOOSE i \in hits : \A j \in hits : i <= j]
               IN IF dep.source \in DOMAIN blocks
                  THEN Visited("kResultChanged",
                               MapPut(blocks, id, DivergenceEdge("kIDBlock", dep.source, 0)),
                               values)
                  ELSE Visited("kResultChanged",
                               MapPut(blocks, id,
                                      DivergenceEdge("kIDValue", dep.dependent_value_label,
                                                     dep.source)),
                               IF dep.dependent_value_label \in DOMAIN values
                               THEN values
                               ELSE MapPut(values, dep.dependent_value_label,
                                           DivergenceEdge("kIDValue", 0, 0)))

\* VisitBlock
VisitBlock(rev, blocks, values, id) ==
  IF id \in DOMAIN blocks
  THEN Visited("kResultFixed", blocks, values)
  ELSE LET dependees == GetDependees(rev, id)
           deps == dependees.list
           hit(dep) == \/ dep.source \in DOMAIN blocks
                       \/ (dep.dependence_type # "kEntry"
                           /\ dep.dependent_value_label \in DOMAIN values)
           hits == {i \in DOMAIN deps : hit(deps[i])}
       IN IF dependees.outcome # "ok" THEN Thrown(blocks, values)
          ELSE IF hits = {} THEN Visited("kResultFixed", blocks, values)
          ELSE LET dep == deps[CHOOSE i \in hits : \A j \in hits : i <= j]
               IN IF dep.source \in DOMAIN blocks
                  THEN Visited("kResultChanged",
                               MapPut(blocks, id, DivergenceEdge("kIDBlock", dep.source, 0)),
                               values)
                  ELSE Visited("kResultChanged",
                               MapPut(blocks, id,
                                      DivergenceEdge("kIDValue", dep.dependent_value_label,
                                                     dep.source)),
                               values)

\* VisitInstruction without the test of InstructionIsNeverDivergent
VisitInstruction_FollowsOperands(inst, blocks, values) ==
  IF IsBlockTerminator(inst) THEN Visited("kResultChanged", blocks, values)
  ELSE IF ~HasResultId(inst) THEN Visited("kResultFixed", blocks, values)
  ELSE IF inst.result \in DOMAIN values THEN Visited("kResultFixed", blocks, values)
  ELSE IF InstructionIsDivergent(inst)
  THEN Visited("kResultChanged", blocks,
               MapPut(values, inst.result, DivergenceEdge("kIDValue", 0, 0)))
  ELSE LET hits == {i \in DOMAIN inst.ins :
                      inst.ins[i] \in DOMAIN values \/ inst.ins[i] \in DOMAIN blocks}
       IN IF hits = {} THEN Visited("kResultFixed", blocks, values)
          ELSE LET op == inst.ins[CHOOSE i \in hits : \A j \in hits : i <= j]
               IN Visited("kResultChanged", blocks,
                          MapPut(values, inst.result,
                                 IF op \in DOMAIN values
                                 THEN DivergenceEdge("kIDValue", op, 0)
                                 ELSE DivergenceEdge("kIDBlock", op, 0)))

\* VisitInstruction
VisitInstruction(inst, blocks, values) ==
  IF IsBlockTerminator(inst) THEN Visited("kResultChanged", blocks, values)
  ELSE IF ~HasResultId(inst) THEN Visited("kResultFixed", blocks, values)
  ELSE IF inst.result \in DOMAIN values THEN Visited("kResultFixed", blocks, values)
  ELSE IF InstructionIsDivergent(inst)
  THEN Visited("kResultChanged", blocks,
               MapPut(values, inst.result, DivergenceEdge("kIDValue", 0, 0)))
  ELSE IF InstructionIsNeverDivergent(inst) THEN Visited("kResultFixed", blocks, values)
  ELSE LET hits == {i \in DOMAIN inst.ins :
                      inst.ins[i] \in DOMAIN values \/ inst.ins[i] \in DOMAIN blocks}
       IN IF hits = {} THEN Visited("kResultFixed", blocks, values)
          ELSE LET op == inst.ins[CHOOSE i \in hits : \A j \in hits : i <= j]
               IN Visited("kResultChanged", blocks,
                          MapPut(values, inst.result,
                                 IF op \in DOMAIN values
                                 THEN DivergenceEdge("kIDValue", op, 0)
                                 ELSE DivergenceEdge("kIDBlock", op, 0)))

\* Visit
Visit(rev, inst, blocks, values) ==
  IF inst.op = "OpLabel"
  THEN VisitBlock(rev, blocks, values, inst.result)
  ELSE VisitInstruction(inst, blocks, values)

\* ForEachSuccessor without the labels of the control-dependent blocks
ForEachSuccessor_UsersOnly(m, g, fwd, inst) ==
  LET users == Users(m, g, inst)
  IN [outcome |-> "ok", keys |-> [i \in DOMAIN users |-> users[i].key]]

\* ForEachSuccessor handing over, for a terminator, the label of its own
\* block instead of the labels of the dependents of that block
ForEachSuccessor_OwnLabel(m, g, fwd, inst) ==
  LET users == Users(m, g, inst)
      userKeys == [i \in DOMAIN users |-> users[i].key]
  IN IF IsBlockTerminator(inst)
     THEN [outcome |-> "ok",
           keys |-> userKeys \o <<LabelInst(BlockOfTerminator(inst)).key>>]
     ELSE IF inst.op = "OpLabel"
     THEN LET dependents == GetDependents(fwd, inst.result)
          IN [outcome |-> dependents.outcome,
              keys |-> userKeys \o [i \in DOMAIN dependents.list |->
                                      LabelInst(dependents.list[i].target).key]]
     ELSE [outcome |-> "ok", keys |-> userKeys]

\* ForEachSuccessor without the users of the result id
ForEachSuccessor_LabelsOnly(m, g, fwd, inst) ==
  LET label == IF IsBlockTerminator(inst) THEN LabelInst(BlockOfTerminator(inst)) ELSE inst
  IN IF label.op = "OpLabel"
     THEN LET dependents == GetDependents(fwd, label.result)
          IN [outcome |-> dependents.outcome,
              keys |-> [i \in DOMAIN dependents.list |->
                          LabelInst(dependents.list[i].target).key]]
     ELSE [outcome |-> "ok", keys |-> <<>>]

\* ForEachSuccessor without the step from a terminator to the label of
\* its block
ForEachSuccessor_TerminatorAsIs(m, g, fwd, inst) ==
  LET users == Users(m, g, inst)
      userKeys == [i \in DOMAIN users |-> users[i].key]
  IN IF inst.op = "OpLabel"
     THEN LET dependents == GetDependents(fwd, inst.result)
          IN [outcome |-> dependents.outcome,
              keys |-> userKeys \o [i \in DOMAIN dependents.list |->
                                      LabelInst(dependents.list[i].target).key]]
     ELSE [outcome |-> "ok", keys |-> userKeys]

\* ForEachSuccessor: the keys of the instructions handed to f, in order,
\* and whether GetDependents threw after them
ForEachSuccessor(m, g, fwd, inst) ==
  LET users == Users(m, g, inst)
      userKeys == [i \in DOMAIN users |-> users[i].key]
      label == IF IsBlockTerminator(inst) THEN LabelInst(BlockOfTerminator(inst)) ELSE inst
  IN IF label.op = "OpLabel"
     THEN LET dependents == GetDependents(fwd, label.result)
          IN [outcome |-> dependents.outcome,
              keys |-> userKeys \o [i \in DOMAIN dependents.list |->
                                      LabelInst(dependents.list[i].target).key]]
     ELSE [outcome |-> "ok", keys |-> userKeys]

\* Enqueue without the test of the mark
Enqueue_Unconditional(inst, q) ==
  [worklist |-> Append(q.worklist, inst),
   on_worklist |-> MapPut(q.on_worklist, inst, TRUE)]

\* Enqueue: q holds the worklist and the marks of the instructions on it
Enqueue(inst, q) ==
  IF MapGet(q.on_worklist, inst, FALSE)
  THEN q
  ELSE [worklist |-> Append(q.worklist, inst),
        on_worklist |-> MapPut(q.on_worklist, inst, TRUE)]

RECURSIVE EnqueueAll(_, _)
\* Enqueue for every key of keys, in order; each call of Enqueue is
\* evaluated once, on the outcome of the call before it
EnqueueAll(keys, q) ==
  IF keys = <<>>
  THEN q
  ELSE CHOOSE r \in {EnqueueAll(Tail(keys), next) : next \in {Enqueue(Head(keys), q)}} :
         TRUE

\* the instructions InitializeWorklist enqueues, in order
InitialWorklist(m, g) ==
  LET order == ReversePostOrder(g)
      insts == m.types_values
                 \o Flatten([i \in DOMAIN order |-> BlockInstructions(m, g, order[i])])
  IN [i \in DOMAIN insts |-> insts[i].key]

(***************************************************************************)
(* PrintDivergenceFlow and the warnings of Linter::Run.                    *)
(***************************************************************************)
\* a message handed to the consumer: what it says, the id it is about and
\* the other id it names (0 when it names none)
Diag(message, id, other) == [message |-> message, id |-> id, other |-> other]

\* std::map::operator[] on the walker's copy of a map: a missing id reads
\* as the value-initialised edge
EdgeOf(graph, id) == MapGet(graph, id, DivergenceEdge("kIDBlock", 0, 0))

RECURSIVE ChaseBlocks(_, _)
\* PrintDivergenceFlow, lines 133-138: the block the chain of block
\* reasons leads to
ChaseBlocks(blocks, id) ==
  IF id # 0 /\ EdgeOf(blocks, id).id_type = "kIDBlock" /\ EdgeOf(blocks, id).id # 0
  THEN ChaseBlocks(blocks, EdgeOf(blocks, id).id)
  ELSE id

RECURSIVE ChaseValues(_, _)
\* PrintDivergenceFlow, lines 145-152: the value the chain of value
\* reasons leads to and the messages emitted on the way
ChaseValues(values, id) ==
  IF id # 0 /\ EdgeOf(values, id).id_type = "kIDValue" /\ EdgeOf(values, id).id # 0
  THEN LET rest == ChaseValues(values, EdgeOf(values, id).id)
       IN [id |-> rest.id,
           out |-> <<Diag("uses in its definition", id, EdgeOf(values, id).id)>>
                     \o rest.out]
  ELSE [id |-> id, out |-> <<>>]

\* the walk cut short after its first message
PrintDivergenceFlow_FirstMessage(blocks, values, id_type, id) ==
  IF id = 0 THEN <<>>
  ELSE <<Diag(IF id_type = "kIDBlock" THEN "block is non-uniform"
                                      ELSE "value is non-uniform", id, 0)>>

RECURSIVE PrintDivergenceFlow(_, _, _, _)
\* PrintDivergenceFlow: the messages it emits, in order
PrintDivergenceFlow(blocks, values, id_type, id) ==
  IF id = 0 THEN <<>>
  ELSE IF id_type = "kIDBlock"
  THEN LET at == ChaseBlocks(blocks, id)
       IN <<Diag("block is non-uniform", id, 0)>>
            \o (IF at = 0 \/ EdgeOf(blocks, at).id = 0
                THEN <<>>
                ELSE <<Diag("depends on conditional branch on non-uniform value",
                            at, EdgeOf(blocks, at).id)>>
                       \o PrintDivergenceFlow(blocks, values, "kIDValue",
                                              EdgeOf(blocks, at).id))
  ELSE LET chased == ChaseValues(values, id)
           at == chased.id
       IN <<Diag("value is non-uniform", id, 0)>> \o chased.out
            \o (IF at = 0 THEN <<>>
                ELSE IF EdgeOf(values, at).id = 0
                THEN <<Diag("has a non-uniform definition", at, 0)>>
                ELSE <<Diag("is conditionally set in non-uniform block",
                            at, EdgeOf(values, at).id)>>
                       \o PrintDivergenceFlow(blocks, values, "kIDBlock",
                                              EdgeOf(values, at).id))

\* the messages for one instruction of block b when the divergence of the
\* block is not asked for
WarningsOf_AnyBlock(blocks, values, inst, b) ==
  IF InstructionHasDerivative(inst)
  THEN <<Diag("derivative with non-uniform control flow", inst.result, b)>>
         \o PrintDivergenceFlow(blocks, values, "kIDBlock", b)
  ELSE <<>>

\* Linter::Run, lines 353-361: the messages for one instruction of block b
WarningsOf(blocks, values, inst, b) ==
  IF InstructionHasDerivative(inst) /\ b \in DOMAIN blocks
  THEN <<Diag("derivative with non-uniform control flow", inst.result, b)>>
         \o PrintDivergenceFlow(blocks, values, "kIDBlock", b)
  ELSE <<>>

\* Linter::Run, lines 352-363: the messages for the function, block by
\* block in function order
Warnings(m, g, blocks, values) ==
  Flatten([i \in DOMAIN g.order |->
             LET insts == BlockInstructions(m, g, g.order[i])
             IN Flatten([k \in DOMAIN insts |->
                           WarningsOf(blocks, values, insts[k], g.order[i])])])

(***************************************************************************)
(* The modules analysed by the data-flow analysis: one function whose CFG  *)
(* has one of the shapes below, a pointer variable %10 and a constant %11  *)
(* at module level, a function parameter %20, a first value %21 in the     *)
(* entry block and a second value %22 in any block.                        *)
(***************************************************************************)
\* the ids a branch condition or switch selector is drawn from
ConditionIds == {11, 20, 21, 22}

ShapeCFG(name, terms) ==
  [name |-> name, order |-> [i \in DOMAIN terms |-> i], term |-> terms]

DataFlowCFGs ==
  {ShapeCFG("straight", <<OpReturn>>)}
  \cup {ShapeCFG("spin", <<OpBranch(1)>>)}
  \cup {ShapeCFG("detached", <<OpBranch(3), OpBranch(3), OpReturn>>)}
  \cup {ShapeCFG("if", <<OpBranchConditional(c, 2, 3), OpBranch(3), OpReturn>>) :
          c \in ConditionIds}
  \cup {ShapeCFG("loop", <<OpBranch(2), OpBranchConditional(c, 2, 3), OpReturn>>) :
          c \in ConditionIds}
  \cup {ShapeCFG("switch", <<OpSwitch(c, 2, <<1, 3>>), OpBranch(3), OpReturn>>) :
          c \in ConditionIds}
  \cup {ShapeCFG("endless", <<OpBranchConditional(c, 2, 3), OpBranch(2), OpReturn>>) :
          c \in ConditionIds}
  \cup {ShapeCFG("nested", <<OpBranchConditional(c, 2, 4), OpBranchConditional(d, 3, 4),
                             OpBranch(4), OpReturn>>) :
          c \in ConditionIds, d \in ConditionIds}

\* the first value of the function: a load or an addition of module-level
\* values and the parameter
FirstValues ==
  {OpLoad(21, 10, "Input", FALSE), OpLoad(21, 10, "Input", TRUE),
   OpLoad(21, 10, "Function", FALSE), OpLoad(21, 10, "Uniform", FALSE),
   ValueInst("OpIAdd", 21, <<20, 11>>), ValueInst("OpIAdd", 21, <<11, 11>>)}

\* the second value: it uses the first value, samples an image, loads
\* from the module-level variable, or is a phi of a constant coming from
\* one of the blocks
SecondValues(g) ==
  {ValueInst("OpIAdd", 22, <<11, 21>>), ValueInst("OpSubgroupBallotKHR", 22, <<21>>),
   ValueInst("OpDPdx", 22, <<21>>), ValueInst("OpImageSampleImplicitLod", 22, <<11>>),
   OpLoad(22, 21, "Uniform", FALSE), OpLoad(22, 10, "Function", FALSE)}
  \cup {ValueInst("OpPhi", 22, <<11, b>>) : b \in Blocks(g)}

Modules(g) ==
  {[types_values |-> <<ValueInst("OpVariable", 10, <<>>),
                       ValueInst("OpConstantTrue", 11, <<>>)>>,
    params |-> <<ValueInst("OpFunctionParameter", 20, <<>>)>>,
    body |-> [b \in Blocks(g) |->
                (IF b = g.order[1] THEN <<v1>> ELSE <<>>)
                  \o (IF b = at THEN <<v2>> ELSE <<>>)],
    functions |-> <<>>] :
     v1 \in FirstValues, v2 \in SecondValues(g), at \in Blocks(g)}

\* the linter has been created; no binary has been handed to it
InitDF ==
  /\ cfg = [name |-> "none", order |-> <<>>, term |-> <<>>]
  /\ pdom = [nodes |-> {}, sdom |-> {}, ipdom |-> <<>>]
  /\ ir = NoIR
  /\ pc = "binary"
  /\ todo = <<>>
  /\ reverse_nodes_ = <<>>
  /\ forward_nodes_ = <<>>
  /\ degree = <<>>
  /\ asserted = FALSE
  /\ ret = NoRet
  /\ blocks_ = <<>>
  /\ values_ = <<>>
  /\ worklist_ = <<>>
  /\ on_worklist_ = <<>>
  /\ diagnostics = <<>>
  /\ returned = "none"
  /\ walk = NoWalk

\* Linter::Run, lines 340-346: the module is built from the binary and the
\* post-dominator tree of its function computed
BuildModule ==
  /\ pc = "binary"
  /\ cfg' \in DataFlowCFGs
  /\ pdom' = PostDominatorTree(cfg')
  /\ ir' \in Modules(cfg')
  /\ pc' = "start"
  /\ UNCHANGED <<todo, reverse_nodes_, forward_nodes_, degree, asserted, ret>>
  /\ UNCHANGED <<blocks_, values_, worklist_, on_worklist_, diagnostics, returned, walk>>

\* DivergenceDataFlowAnalysis::Run, line 296, on the graph InitializeGraph
\* has built
InitializeWorklist ==
  /\ pc = "done"
  /\ \E q \in {EnqueueAll(InitialWorklist(ir, cfg),
                          [worklist |-> worklist_, on_worklist |-> on_worklist_])} :
        /\ worklist_' = q.worklist
        /\ on_worklist_' = q.on_worklist
  /\ pc' = "run"
  /\ UNCHANGED <<cfg, pdom, todo, reverse_nodes_, forward_nodes_, degree, asserted, ret>>
  /\ UNCHANGED <<ir, blocks_, values_, diagnostics, returned, walk>>

\* DivergenceDataFlowAnalysis::Run, lines 297-305: one iteration of the
\* loop; an exception leaves Run
RunStep ==
  /\ pc = "run"
  /\ worklist_ # <<>>
  /\ \E top \in {InstOf(ir, cfg, Head(worklist_))} :
     \E v \in {Visit(reverse_nodes_, top, blocks_, values_)} :
     \E succ \in {ForEachSuccessor(ir, cfg, forward_nodes_, top)} :
     \E popped \in {[worklist |-> Tail(worklist_),
                     on_worklist |-> MapPut(on_worklist_, top.key, FALSE)]} :
     \E q \in {IF v.outcome = "ok" /\ v.result = "kResultChanged"
               THEN EnqueueAll(succ.keys, popped)
               ELSE popped} :
        /\ blocks_' = v.blocks
        /\ values_' = v.values
        /\ worklist_' = q.worklist
        /\ on_worklist_' = q.on_worklist
        /\ pc' = IF v.outcome = "ok" /\ (v.result = "kResultFixed" \/ succ.outcome = "ok")
                 THEN "run"
                 ELSE "crashed"
  /\ UNCHANGED <<cfg, pdom, todo, reverse_nodes_, forward_nodes_, degree, asserted, ret, ir>>
  /\ UNCHANGED <<diagnostics, returned, walk>>

\* DivergenceDataFlowAnalysis::Run returns: the worklist is empty
RunReturns ==
  /\ pc = "run"
  /\ worklist_ = <<>>
  /\ pc' = "analysed"
  /\ UNCHANGED <<cfg, pdom, todo, reverse_nodes_, forward_nodes_, degree, asserted, ret>>
  /\ UNCHANGED dfVars

\* Linter::Run, lines 352-363: the warnings for the derivative
\* instructions in divergent blocks, each with its divergence flow
ReportFunction ==
  /\ pc = "analysed"
  /\ diagnostics' = diagnostics \o Warnings(ir, cfg, blocks_, values_)
  /\ pc' = "linted"
  /\ UNCHANGED <<cfg, pdom, todo, reverse_nodes_, forward_nodes_, degree, asserted, ret>>
  /\ UNCHANGED <<ir, blocks_, values_, worklist_, on_worklist_, returned, walk>>

NextDF ==
  \/ BuildModule
  \/ BeginInitializeGraph
  \/ ReversePassStep
  \/ ForwardPass
  \/ InitializeWorklist
  \/ RunStep
  \/ RunReturns
  \/ ReportFunction

SpecDF == InitDF /\ [][NextDF]_vars

\* Run is a sequential loop: while the worklist is not empty its next
\* iteration is executed, and once it is empty Run returns
SpecDFFair == InitDF /\ [][NextDF]_vars /\ WF_vars(RunStep) /\ WF_vars(RunReturns)

(***************************************************************************)
(* The analysis with the worklist visited in another order than first-in  *)
(* first-out: an iteration of Run takes any of the first MaxLookahead     *)
(* items instead of the front.                                            *)
(***************************************************************************)
\* the list without its i-th item
Without(list, i) == SubSeq(list, 1, i - 1) \o SubSeq(list, i + 1, Len(list))

\* DivergenceDataFlowAnalysis::Run, lines 297-305, taking the i-th item of
\* the worklist
RunIteration(i) ==
  /\ pc = "run"
  /\ i \in DOMAIN worklist_
  /\ \E top \in {InstOf(ir, cfg, worklist_[i])} :
     \E v \in {Visit(reverse_nodes_, top, blocks_, values_)} :
     \E succ \in {ForEachSuccessor(ir, cfg, forward_nodes_, top)} :
     \E popped \in {[worklist |-> Without(worklist_, i),
                     on_worklist |-> MapPut(on_worklist_, top.key, FALSE)]} :
     \E q \in {IF v.outcome = "ok" /\ v.result = "kResultChanged"
               THEN EnqueueAll(succ.keys, popped)
               ELSE popped} :
        /\ blocks_' = v.blocks
        /\ values_' = v.values
        /\ worklist_' = q.worklist
        /\ on_worklist_' = q.on_worklist
        /\ pc' = IF v.outcome = "ok" /\ (v.result = "kResultFixed" \/ succ.outcome = "ok")
                 THEN "run"
                 ELSE "crashed"
  /\ UNCHANGED <<cfg, pdom, todo, reverse_nodes_, forward_nodes_, degree, asserted, ret, ir>>
  /\ UNCHANGED <<diagnostics, returned, walk>>

RunStepAnyOrder == \E i \in 1..MaxLookahead : RunIteration(i)

\* the ids the branches and switches of the function decide on
Conditions(g) ==
  {GetSingleWordInOperand(g.term[b], 0) :
     b \in {x \in Blocks(g) : g.term[x].op \in {"OpBranchConditional", "OpSwitch"}}}

\* Linter::Run, lines 340-346, for the modules whose function decides all
\* its branches on the same id
BuildFlatModule ==
  /\ BuildModule
  /\ Cardinality(Conditions(cfg')) <= 1

NextAnyOrder ==
  \/ BuildFlatModule
  \/ BeginInitializeGraph
  \/ ReversePassStep
  \/ ForwardPass
  \/ InitializeWorklist
  \/ RunStepAnyOrder
  \/ RunReturns
  \/ ReportFunction

SpecAnyOrder == InitDF /\ [][NextAnyOrder]_vars

(***************************************************************************)
(* Linter::Run as a whole, and PrintDivergenceFlow step by step: one step *)
(* of a walk is one   id = ...   of the function, or its return.  A walk   *)
(* may be started from any key of blocks_ or values_ once the function    *)
(* has been reported.                                                     *)
(***************************************************************************)
\* Linter::Run, lines 340-342: BuildModule yields no context
BuildModuleFails ==
  /\ pc = "binary"
  /\ pc' = "exit"
  /\ returned' = "false"
  /\ UNCHANGED <<cfg, pdom, todo, reverse_nodes_, forward_nodes_, degree, asserted, ret>>
  /\ UNCHANGED <<ir, blocks_, values_, worklist_, on_worklist_, diagnostics, walk>>

\* Linter::Run returning whether it emitted no message
LinterReturns_FailsOnWarnings ==
  /\ pc = "linted"
  /\ ir.functions = <<>>
  /\ walk.at \in {"idle", "done"}
  /\ pc' = "exit"
  /\ returned' = IF diagnostics = <<>> THEN "true" ELSE "false"
  /\ UNCHANGED <<cfg, pdom, todo, reverse_nodes_, forward_nodes_, degree, asserted, ret>>
  /\ UNCHANGED <<ir, blocks_, values_, worklist_, on_worklist_, diagnostics, walk>>

\* Linter::Run, line 366: every function has been reported
LinterReturns ==
  /\ pc = "linted"
  /\ ir.functions = <<>>
  /\ walk.at \in {"idle", "done"}
  /\ pc' = "exit"
  /\ returned' = "true"
  /\ UNCHANGED <<cfg, pdom, todo, reverse_nodes_, forward_nodes_, degree, asserted, ret>>
  /\ UNCHANGED <<ir, blocks_, values_, worklist_, on_worklist_, diagnostics, walk>>

\* PrintDivergenceFlow is called with (id_type, id)
WalkBegin(id_type, id) ==
  /\ pc = "linted"
  /\ walk.at \in {"idle", "done"}
  /\ walk' = [at |-> "head", id_type |-> id_type, id |-> id, start_type |-> id_type,
              start |-> id, hops |-> 0, out |-> <<>>]
  /\ UNCHANGED <<cfg, pdom, pc, todo, reverse_nodes_, forward_nodes_, degree, asserted, ret>>
  /\ UNCHANGED <<ir, blocks_, values_, worklist_, on_worklist_, diagnostics, returned>>

\* the walk after the message msg when id keeps its value
Hop_Stays(w, msg, id_type, next, at) ==
  [w EXCEPT !.out = w.out \o msg, !.hops = w.hops + 1, !.at = "chain"]

\* the walk after the message msg and the assignment of next to id
Hop(w, msg, id_type, next, at) ==
  [w EXCEPT !.out = w.out \o msg, !.id_type = id_type, !.id = next,
            !.hops = w.hops + 1, !.at = at]

\* the return of the function without its last message
Halt_Silent(w, msg) == [w EXCEPT !.at = "done"]

\* the walk after the message msg and the return of the function
Halt(w, msg) == [w EXCEPT !.out = w.out \o msg, !.at = "done"]

\* PrintDivergenceFlow, lines 130-164: the next step of the walk w over
\* the maps blocks and values
WalkNext(blocks, values, w) ==
  LET id == w.id
      b == EdgeOf(blocks, id)
      v == EdgeOf(values, id)
  IN IF w.at = "head"
     THEN IF id = 0 THEN Halt(w, <<>>)
          ELSE [w EXCEPT !.at = "chain",
                         !.out = w.out \o <<Diag(IF w.id_type = "kIDBlock"
                                                 THEN "block is non-uniform"
                                                 ELSE "value is non-uniform", id, 0)>>]
     ELSE IF w.id_type = "kIDBlock"
     THEN IF id # 0 /\ b.id_type = "kIDBlock" /\ b.id # 0
          THEN Hop(w, <<>>, "kIDBlock", b.id, "chain")
          ELSE IF id = 0 \/ b.id = 0 THEN Halt(w, <<>>)
          ELSE Hop(w, <<Diag("depends on conditional branch on non-uniform value", id, b.id)>>,
                   "kIDValue", b.id, "head")
     ELSE IF id # 0 /\ v.id_type = "kIDValue" /\ v.id # 0
          THEN Hop(w, <<Diag("uses in its definition", id, v.id)>>, "kIDValue", v.id, "chain")
          ELSE IF id = 0 THEN Halt(w, <<>>)
          ELSE IF v.id = 0 THEN Halt(w, <<Diag("has a non-uniform definition", id, 0)>>)
          ELSE Hop(w, <<Diag("is conditionally set in non-uniform block", id, v.id)>>,
                   "kIDBlock", v.id, "head")

\* a step of a walk that erases the id it leaves from the maps of the
\* analysis
WalkStep_Consumes ==
  /\ pc = "linted"
  /\ walk.at \in {"head", "chain"}
  /\ walk.hops <= MaxHops
  /\ walk' = WalkNext(blocks_, values_, walk)
  /\ blocks_' = [b \in DOMAIN blocks_ \ {walk.id} |-> blocks_[b]]
  /\ values_' = [v \in DOMAIN values_ \ {walk.id} |-> values_[v]]
  /\ UNCHANGED <<cfg, pdom, pc, todo, reverse_nodes_, forward_nodes_, degree, asserted, ret>>
  /\ UNCHANGED <<ir, worklist_, on_worklist_, diagnostics, returned>>

\* the walk under way takes its next step
WalkStep ==
  /\ pc = "linted"
  /\ walk.at \in {"head", "chain"}
  /\ walk.hops <= MaxHops
  /\ walk' = WalkNext(blocks_, values_, walk)
  /\ UNCHANGED <<cfg, pdom, pc, todo, reverse_nodes_, forward_nodes_, degree, asserted, ret>>
  /\ UNCHANGED <<ir, blocks_, values_, worklist_, on_worklist_, diagnostics, returned>>

\* a walk is started from a key of blocks_ or of values_
WalkFromKey ==
  \/ \E b \in DOMAIN blocks_ : WalkBegin("kIDBlock", b)
  \/ \E v \in DOMAIN values_ : WalkBegin("kIDValue", v)

NextLint ==
  \/ BuildModule
  \/ BuildModuleFails
  \/ BeginInitializeGraph
  \/ ReversePassStep
  \/ ForwardPass
  \/ InitializeWorklist
  \/ RunStep
  \/ RunReturns
  \/ ReportFunction
  \/ WalkFromKey
  \/ WalkStep
  \/ LinterReturns

SpecLint == InitDF /\ [][NextLint]_vars

(***************************************************************************)
(* Linter::Run on a module of two functions.  The ids of a module are      *)
(* unique: the first function has the labels %1..%3, the parameter %20 and *)
(* the values %21, %22, the second one the labels %4..%6, the parameter    *)
(* %30 and the values %31, %32.  Both use the module-level variable %10    *)
(* and constant %11.  ir holds the function under analysis and, in         *)
(* ir.functions, the functions of the module that follow it.               *)
(***************************************************************************)
\* the control flow graphs with the labels l+1 .. l+3 that branch on c
ShapesAt(l, c) ==
  {[name |-> "straight", order |-> <<l + 1>>, term |-> (l + 1 :> OpReturn)],
   [name |-> "if", order |-> <<l + 1, l + 2, l + 3>>,
    term |-> (l + 1 :> OpBranchConditional(c, l + 2, l + 3)
              @@ l + 2 :> OpBranch(l + 3) @@ l + 3 :> OpReturn)],
   [name |-> "loop", order |-> <<l + 1, l + 2, l + 3>>,
    term |-> (l + 1 :> OpBranch(l + 2)
              @@ l + 2 :> OpBranchConditional(c, l + 2, l + 3)
              @@ l + 3 :> OpReturn)]}

\* the functions with the labels above l, the parameter %p, a load %p+1
\* in the entry block and a derivative %p+2 of it in any block
FunctionsAt(l, p) ==
  UNION {{[cfg |-> g,
           params |-> <<ValueInst("OpFunctionParameter", p, <<>>)>>,
           body |-> [b \in Blocks(g) |->
                       (IF b = g.order[1] THEN <<OpLoad(p + 1, 10, sc, FALSE)>> ELSE <<>>)
                         \o (IF b = at THEN <<ValueInst("OpDPdx", p + 2, <<p + 1>>)>>
                                       ELSE <<>>)]] :
            sc \in {"Input", "Uniform"}, at \in Blocks(g)} :
         g \in ShapesAt(l, 11) \cup ShapesAt(l, p + 1)}

\* Linter::Run, lines 340-346, for a module of two functions: the first
\* iteration of the loop over the functions begins
BuildProgram ==
  /\ pc = "binary"
  /\ \E f \in FunctionsAt(0, 20), h \in FunctionsAt(3, 30) :
       /\ cfg' = f.cfg
       /\ pdom' = PostDominatorTree(f.cfg)
       /\ ir' = [types_values |-> <<ValueInst("OpVariable", 10, <<>>),
                                    ValueInst("OpConstantTrue", 11, <<>>)>>,
                 params |-> f.params, body |-> f.body, functions |-> <<h>>]
  /\ pc' = "start"
  /\ UNCHANGED <<todo, reverse_nodes_, forward_nodes_, degree, asserted, ret>>
  /\ UNCHANGED <<blocks_, values_, worklist_, on_worklist_, diagnostics, returned, walk>>

\* the next iteration with the analysis of the function before still alive
NextFunction_KeepsAnalysis ==
  /\ pc = "linted"
  /\ ir.functions # <<>>
  /\ LET h == Head(ir.functions)
     IN /\ cfg' = h.cfg
        /\ pdom' = PostDominatorTree(h.cfg)
        /\ ir' = [ir EXCEPT !.params = h.params, !.body = h.body,
                            !.functions = Tail(ir.functions)]
  /\ todo' = <<>>
  /\ reverse_nodes_' = <<>>
  /\ forward_nodes_' = <<>>
  /\ degree' = <<>>
  /\ pc' = "start"
  /\ UNCHANGED <<asserted, ret, diagnostics, returned, walk>>
  /\ UNCHANGED <<blocks_, values_, worklist_, on_worklist_>>

\* Linter::Run, lines 345-350: the next iteration of the loop over the
\* functions.  cdg and div_analysis are objects of the loop body: those of
\* the function before are destroyed and new ones default-constructed
NextFunction ==
  /\ pc = "linted"
  /\ ir.functions # <<>>
  /\ LET h == Head(ir.functions)
     IN /\ cfg' = h.cfg
        /\ pdom' = PostDominatorTree(h.cfg)
        /\ ir' = [ir EXCEPT !.params = h.params, !.body = h.body,
                            !.functions = Tail(ir.functions)]
  /\ todo' = <<>>
  /\ reverse_nodes_' = <<>>
  /\ forward_nodes_' = <<>>
  /\ degree' = <<>>
  /\ blocks_' = <<>>
  /\ values_' = <<>>
  /\ worklist_' = <<>>
  /\ on_worklist_' = <<>>
  /\ pc' = "start"
  /\ UNCHANGED <<asserted, ret, diagnostics, returned, walk>>

NextFunctions ==
  \/ BuildProgram
  \/ BeginInitializeGraph
  \/ ReversePassStep
  \/ ForwardPass
  \/ InitializeWorklist
  \/ RunStep
  \/ RunReturns
  \/ ReportFunction
  \/ NextFunction
  \/ LinterReturns

SpecFunctions == InitDF /\ [][NextFunctions]_vars

(***************************************************************************)
(* Properties of the data-flow analysis.                                   *)
(***************************************************************************)
\* every key of the map before is a key after, with the same reason
Preserved(before, after) ==
  \A id \in DOMAIN before : id \in DOMAIN after /\ after[id] = before[id]

\* C9: once a block is a key of blocks_ or a value a key of values_, it
\* stays a key with the same reason: no step removes or overwrites an entry
C9_EntriesAreNeverOverwritten ==
  [][Preserved(blocks_, blocks_') /\ Preserved(values_, values_')]_vars

\* the analysis has ended with a block whose stored reason is a branch
\* condition although one of its dependees is divergent as well
C9_Witness ==
  /\ pc = "analysed"
  /\ values_ # <<>>
  /\ \E L \in DOMAIN blocks_ :
        /\ blocks_[L].id_type = "kIDValue"
        /\ \E i \in DOMAIN reverse_nodes_[L] :
              reverse_nodes_[L][i].source \in DOMAIN blocks_

\* C10: Run terminates: once the loop is entered the worklist eventually
\* becomes empty and Run returns
C10_RunTerminates ==
  (pc = "run") ~> (pc = "analysed" /\ worklist_ = <<>>)

\* every block that can be reached from the entry block reaches an exit
ReachableBlocksReachExit ==
  DepthFirst(cfg, <<cfg.order[1]>>, [seen |-> {}, post |-> <<>>]).seen
    \subseteq ReachesExit(cfg, {})

\* Run terminates for functions whose reachable blocks all reach an exit
RunTerminatesOnExitingFunctions ==
  (pc = "run" /\ ReachableBlocksReachExit) ~> (pc = "analysed" /\ worklist_ = <<>>)

\* Run has been left by the exception of a lookup in the graph
RunCrashed == pc = "crashed"

(***************************************************************************)
(* The fixed point of the analysis as a function of the module and the    *)
(* graph alone: the instructions of the module are visited in turn, again *)
(* and again, until a whole turn changes nothing.  An instruction is      *)
(* visited once it is due: it is on the initial worklist, or a successor  *)
(* of an instruction whose visit reported a change.                       *)
(***************************************************************************)
RECURSIVE Sweep(_, _, _, _, _)
\* one turn: st holds the maps and the set of the instructions that are due
Sweep(rev, fwd, m, g, todoSt) ==
  LET keys == todoSt.keys
      st == todoSt.st
  IN IF keys = <<>>
     THEN st
     ELSE IF Head(keys) \notin st.due
     THEN Sweep(rev, fwd, m, g, [keys |-> Tail(keys), st |-> st])
     ELSE LET inst == InstOf(m, g, Head(keys))
              v == Visit(rev, inst, st.blocks, st.values)
              succ == ForEachSuccessor(m, g, fwd, inst)
          IN Sweep(rev, fwd, m, g,
                   [keys |-> Tail(keys),
                    st |-> [blocks |-> v.blocks, values |-> v.values,
                            due |-> IF v.result = "kResultChanged"
                                    THEN st.due \cup Range(succ.keys)
                                    ELSE st.due]])

RECURSIVE SweepUntilStable(_, _, _, _, _)
SweepUntilStable(rev, fwd, m, g, st) ==
  LET all == ModuleInstructions(m, g)
      after == Sweep(rev, fwd, m, g, [keys |-> [i \in DOMAIN all |-> all[i].key], st |-> st])
  IN IF after = st THEN st ELSE SweepUntilStable(rev, fwd, m, g, after)

\* the fixed point for the module and graph of the current state
FixedPoint ==
  SweepUntilStable(reverse_nodes_, forward_nodes_, ir, cfg,
                   [blocks |-> <<>>, values |-> <<>>,
                    due |-> Range(InitialWorklist(ir, cfg))])

\* Run has returned: the maps hold the fixed point
Analysed == pc \in {"analysed", "linted"}

\* C11: whatever the order in which the worklist items are visited, the
\* key sets of blocks_ and values_ when Run returns are those of the fixed
\* point, which depends on the module and the graph only
C11_KeySetsIndependentOfOrder ==
  Analysed =>
    /\ DOMAIN blocks_ = DOMAIN FixedPoint.blocks
    /\ DOMAIN values_ = DOMAIN FixedPoint.values

\* Run has returned with a block whose reason differs from the reason the
\* fixed point computed in turn gives it: the order of the visits showed
C11_Witness ==
  /\ Analysed
  /\ \E b \in DOMAIN blocks_ :
        b \in DOMAIN FixedPoint.blocks /\ blocks_[b] # FixedPoint.blocks[b]

\* the instructions of the function: its parameters, then its blocks
FunctionInstructions ==
  ir.params \o Flatten([i \in DOMAIN cfg.order |-> BlockInstructions(ir, cfg, cfg.order[i])])

\* the storage classes whose loads are roots whatever the decorations
RootStorageClasses ==
  {"Function", "Generic", "AtomicCounter", "StorageBuffer", "PhysicalStorageBuffer",
   "Output"}

\* C12: when Run has returned, the result id of every OpLoad of the
\* function that reads a pointer to Function, Generic, AtomicCounter,
\* StorageBuffer, PhysicalStorageBuffer or Output storage is a key of
\* values_
C12_RootLoadsAreDivergent ==
  Analysed =>
    \A i \in DOMAIN FunctionInstructions :
      LET inst == FunctionInstructions[i]
      IN (inst.op = "OpLoad" /\ inst.sc \in RootStorageClasses)
           => inst.result \in DOMAIN values_

\* the loads of the blocks that the traversal from the entry block reaches
\* are keys of values_ when Run has returned
RootLoadsOfReachableBlocksAreDivergent ==
  Analysed =>
    \A b \in Range(ReversePostOrder(cfg)) :
      \A i \in DOMAIN ir.body[b] :
        LET inst == ir.body[b][i]
        IN (inst.op = "OpLoad" /\ inst.sc \in RootStorageClasses)
             => inst.result \in DOMAIN values_

\* the reason stored for a root: a value with no source
Root == DivergenceEdge("kIDValue", 0, 0)

\* C13: when Run has returned, the result id of every OpFunctionParameter
\* of the function is a key of values_, with the reason of a root
C13_ParametersAreDivergent ==
  Analysed =>
    \A i \in DOMAIN ir.params :
      /\ ir.params[i].result \in DOMAIN values_
      /\ values_[ir.params[i].result] = Root

\* no OpFunctionParameter is ever put on the worklist
ParametersAreNeverEnqueued ==
  \A i \in DOMAIN ir.params :
    /\ ir.params[i].key \notin Range(worklist_)
    /\ ir.params[i].key \notin DOMAIN on_worklist_

\* the instructions of the entry block that load from Input storage
InputLoads ==
  {inst \in Range(ir.body[cfg.order[1]]) : inst.op = "OpLoad" /\ inst.sc = "Input"}

\* the direct scenario: the entry block ends in a conditional branch on
\* the Input load ld, and block b, which holds a derivative instruction,
\* is control dependent on that branch
DirectScenario(ld, b) ==
  /\ ld \in InputLoads
  /\ cfg.term[cfg.order[1]].op = "OpBranchConditional"
  /\ GetSingleWordInOperand(cfg.term[cfg.order[1]], 0) = ld.result
  /\ b \in Blocks(cfg)
  /\ \E i \in DOMAIN ir.body[b] : InstructionHasDerivative(ir.body[b][i])
  /\ \E i \in DOMAIN MapGet(reverse_nodes_, b, <<>>) :
       /\ reverse_nodes_[b][i].source = cfg.order[1]
       /\ reverse_nodes_[b][i].dependent_value_label = ld.result

\* C14: when Run has returned, a load from Input storage is in values_ as
\* a root exactly when its result id is not decorated Flat; and in the
\* direct scenario with the load decorated Flat the guarded block is not a
\* key of blocks_ and no warning is emitted
C14_FlatInputLoadIsUniform ==
  Analysed =>
    /\ \A ld \in InputLoads :
         (ld.result \in DOMAIN values_ /\ values_[ld.result] = Root) <=> ~ld.flat
    /\ \A ld \in InputLoads : \A b \in Blocks(cfg) :
         (DirectScenario(ld, b) /\ ld.flat)
           => /\ b \notin DOMAIN blocks_
              /\ diagnostics = <<>>

\* the functions of the direct scenario with the Flat decoration have been
\* analysed and reported
C14_Witness ==
  /\ pc = "linted"
  /\ \E ld \in InputLoads : \E b \in Blocks(cfg) : DirectScenario(ld, b) /\ ld.flat

\* the instructions of the body of block b whose divergence is derived:
\* they have a result id and are neither divergent nor uniform by opcode
Transparent(b) ==
  {inst \in Range(ir.body[b]) :
     /\ HasResultId(inst)
     /\ ~InstructionIsDivergent(inst)
     /\ ~InstructionIsNeverDivergent(inst)}

\* some in-operand of inst is a key of values_ or of blocks_
HasDivergentOperand(inst) ==
  \E op \in Range(inst.ins) : op \in DOMAIN values_ \/ op \in DOMAIN blocks_

\* C15: when Run has returned, the result id of an instruction whose
\* divergence is derived is a key of values_ exactly when one of its
\* in-operands is divergent or its block is a key of blocks_
C15_TransparentInstructions ==
  Analysed =>
    \A b \in Blocks(cfg) : \A inst \in Transparent(b) :
      inst.result \in DOMAIN values_
        <=> (HasDivergentOperand(inst) \/ b \in DOMAIN blocks_)

\* when Run has returned, the result id of an instruction whose divergence
\* is derived is a key of values_ exactly when one of its in-operands is
\* divergent, whatever its block
TransparentInstructionsFollowOperands ==
  Analysed =>
    \A b \in Blocks(cfg) : \A inst \in Transparent(b) :
      inst.result \in DOMAIN values_ <=> HasDivergentOperand(inst)

\* the instruction at the front of the worklist is the label of a block
LabelIsNext == pc = "run" /\ worklist_ # <<>> /\ Head(worklist_)[1] = "l"

\* C16: the visit of a block label leaves values_ as it is, and a block it
\* inserts into blocks_ has as its reason a dependee block that was
\* already a key of blocks_ or a condition that was already a key of
\* values_: a condition that is no key counts as uniform
C16_BlockVisitOnlyReadsValues ==
  [][LabelIsNext =>
       /\ values_' = values_
       /\ \A b \in DOMAIN blocks_' \ DOMAIN blocks_ :
            \/ blocks_'[b].id_type = "kIDBlock" /\ blocks_'[b].id \in DOMAIN blocks_
            \/ blocks_'[b].id_type = "kIDValue" /\ blocks_'[b].id \in DOMAIN values_]_vars

\* Run has returned and left out of blocks_ a block that depends on a
\* branch whose condition is no key of values_
C16_Witness ==
  /\ Analysed
  /\ \E b \in DOMAIN reverse_nodes_ : \E i \in DOMAIN reverse_nodes_[b] :
       /\ reverse_nodes_[b][i].dependence_type # "kEntry"
       /\ reverse_nodes_[b][i].dependent_value_label \notin DOMAIN values_
       /\ b \notin DOMAIN blocks_

\* the positions in diagnostics of the warnings about a derivative
DerivativeWarnings ==
  {i \in DOMAIN diagnostics :
     diagnostics[i].message = "derivative with non-uniform control flow"}

\* the derivative instructions of the function, each with its block
Derivatives ==
  UNION {{<<inst.result, b>> :
            inst \in {x \in Range(ir.body[b]) : InstructionHasDerivative(x)}} :
         b \in Blocks(cfg)}

\* C17: when the function has been reported, every derivative instruction
\* whose block is a key of blocks_ has exactly one warning naming it and
\* its block, every such warning is followed at once by the first message
\* of the walk from that block, and no warning names a derivative
\* instruction whose block is no key of blocks_
C17_OneWarningPerDivergentDerivative ==
  pc = "linted" =>
    /\ \A d \in Derivatives :
         Cardinality({i \in DerivativeWarnings :
                        diagnostics[i].id = d[1] /\ diagnostics[i].other = d[2]})
           = IF d[2] \in DOMAIN blocks_ THEN 1 ELSE 0
    /\ \A i \in DerivativeWarnings :
         /\ <<diagnostics[i].id, diagnostics[i].other>> \in Derivatives
         /\ i + 1 \in DOMAIN diagnostics
         /\ diagnostics[i + 1] = Diag("block is non-uniform", diagnostics[i].other, 0)

\* a function with a derivative instruction in a divergent block has been
\* reported
C17_Witness ==
  /\ pc = "linted"
  /\ \E d \in Derivatives : d[2] \in DOMAIN blocks_
  /\ DerivativeWarnings # {}

\* every dependee of block b is the pseudo-entry block
OnlyEntryDependees(b) ==
  \A i \in DOMAIN reverse_nodes_[b] : reverse_nodes_[b][i].dependence_type = "kEntry"

\* the function has no conditional branch and no switch
Branchless ==
  \A b \in Blocks(cfg) : cfg.term[b].op \notin {"OpBranchConditional", "OpSwitch"}

\* C18: a block all of whose dependees are entry edges is never a key of
\* blocks_, nor is the pseudo-entry block 0; and a function without
\* conditional branch and switch is reported without any message
C18_EntryDependentBlocksAreUniform ==
  /\ \A b \in DOMAIN reverse_nodes_ : OnlyEntryDependees(b) => b \notin DOMAIN blocks_
  /\ kPseudoEntryBlock \notin DOMAIN blocks_
  /\ (pc = "linted" /\ Branchless) => diagnostics = <<>>

\* a function without conditional branch and switch that holds a
\* derivative instruction and a divergent value has been reported
C18_Witness ==
  /\ pc = "linted"
  /\ Branchless
  /\ Derivatives # {}
  /\ values_ # <<>>
  /\ \E b \in DOMAIN reverse_nodes_ : reverse_nodes_[b] # <<>> /\ OnlyEntryDependees(b)

\* the opcodes that sample an image with an implicit level of detail
ImplicitLodSamples ==
  {"OpImageSampleImplicitLod", "OpImageSampleDrefImplicitLod",
   "OpImageSampleProjImplicitLod", "OpImageSampleProjDrefImplicitLod",
   "OpImageSparseSampleImplicitLod", "OpImageSparseSampleDrefImplicitLod",
   "OpImageSparseSampleProjImplicitLod", "OpImageSparseSampleProjDrefImplicitLod"}

\* the entry block ends in a conditional branch on ld, a load from Input
\* storage without the Flat decoration, and b, a target of that branch,
\* holds an implicit-LOD sample
BranchOnInputLoad(ld, b) ==
  /\ ld \in InputLoads
  /\ ~ld.flat
  /\ cfg.term[cfg.order[1]].op = "OpBranchConditional"
  /\ GetSingleWordInOperand(cfg.term[cfg.order[1]], 0) = ld.result
  /\ b \in Range(SuccessorLabels(cfg.term[cfg.order[1]]))
  /\ \E i \in DOMAIN ir.body[b] : ir.body[b][i].op \in ImplicitLodSamples

\* block b is control dependent on the branch that ends the entry block
DependsOnEntryBranch(b) ==
  \E i \in DOMAIN MapGet(reverse_nodes_, b, <<>>) :
    /\ reverse_nodes_[b][i].source = cfg.order[1]
    /\ reverse_nodes_[b][i].dependence_type # "kEntry"

\* the last message of the walk that follows the warning at position i
ChainEnd(i) ==
  LET later == {j \in DerivativeWarnings : j > i}
  IN IF later = {} THEN Len(diagnostics)
     ELSE (CHOOSE j \in later : \A k \in later : j <= k) - 1

\* one warning names block b; its walk has at least two messages and ends
\* with the report that root is defined non-uniform
OneWarningEndingAt(b, root) ==
  /\ Cardinality({i \in DerivativeWarnings : diagnostics[i].other = b}) = 1
  /\ \A i \in DerivativeWarnings :
       diagnostics[i].other = b
         => /\ ChainEnd(i) - i >= 2
            /\ diagnostics[ChainEnd(i)] = Diag("has a non-uniform definition", root, 0)

BranchOnParameterArithmetic(p, v, b) ==
  /\ p \in Range(ir.params)
  /\ \E a \in Blocks(cfg) : v \in Range(ir.body[a])
  /\ v.op = "OpIAdd"
  /\ p.result \in Range(v.ins)
  /\ b \in Blocks(cfg)
  /\ \E i \in DOMAIN ir.body[b] : InstructionHasDerivative(ir.body[b][i])
  /\ \E i \in DOMAIN MapGet(reverse_nodes_, b, <<>>) :
       /\ reverse_nodes_[b][i].dependence_type # "kEntry"
       /\ reverse_nodes_[b][i].dependent_value_label = v.result

\* the scenarios of the function of the current state
ParameterScenarios ==
  {s \in Range(ir.params) \X (UNION {Range(ir.body[a]) : a \in Blocks(cfg)}) \X Blocks(cfg) :
     BranchOnParameterArithmetic(s[1], s[2], s[3])}

\* C20: when block b depends on a branch on v, an arithmetic instruction
\* on the parameter p, the derivative instruction of b is warned about,
\* and the walk from b reports v as using p in its definition and ends
\* with p reported as defined non-uniform
C20_DivergenceThroughParameter ==
  pc = "linted" =>
    \A s \in ParameterScenarios :
      /\ \E i \in DerivativeWarnings : diagnostics[i].other = s[3]
      /\ \E i \in DerivativeWarnings :
           /\ diagnostics[i].other = s[3]
           /\ \E j \in (i + 1)..ChainEnd(i) :
                diagnostics[j] = Diag("uses in its definition", s[2].result, s[1].result)
           /\ diagnostics[ChainEnd(i)]
                = Diag("has a non-uniform definition", s[1].result, 0)

\* when Run has returned, the parameter is no key of values_, and neither
\* is the value computed from it unless another of its operands is
ParameterArithmeticStaysUniform ==
  Analysed =>
    \A s \in ParameterScenarios :
      /\ s[1].result \notin DOMAIN values_
      /\ (\A op \in Range(s[2].ins) : op \notin DOMAIN values_)
           => s[2].result \notin DOMAIN values_

\* the number of keys of the two maps
Keys == Cardinality(DOMAIN blocks_) + Cardinality(DOMAIN values_)

\* C21: a walk of PrintDivergenceFlow started at a key of blocks_ or
\* values_ after Run has returned assigns to id at most as many times as
\* the two maps have keys, and then returns
C21_WalkHaltsWithinKeys ==
  /\ walk.hops <= Keys
  /\ (walk.at \in {"head", "chain"} /\ walk.hops = Keys)
       => WalkNext(blocks_, values_, walk).at = "done"

\* a walk that went from a block to a value and on to another value has
\* returned
C21_Witness ==
  /\ walk.at = "done"
  /\ walk.hops >= 2

\* the messages of a walk that has returned are those PrintDivergenceFlow
\* hands to the consumer in one call
WalkAgreesWithReport ==
  walk.at = "done"
    => walk.out = PrintDivergenceFlow(blocks_, values_, walk.start_type, walk.start)

\* the positions in the messages of the walk that report a root
RootReports ==
  {i \in DOMAIN walk.out : walk.out[i].message = "has a non-uniform definition"}

\* C22: a walk started at a key of blocks_ returns only at a value whose
\* reason is Root, never at an id whose reason names another id; its last
\* message, and no other, reports that value as defined non-uniform; and
\* a walk under way always has a next step
C22_WalkEndsAtRoot ==
  /\ (walk.at = "done" /\ walk.start_type = "kIDBlock")
       => /\ walk.id_type = "kIDValue"
          /\ walk.id \in DOMAIN values_
          /\ values_[walk.id] = Root
          /\ RootReports = {Len(walk.out)}
          /\ walk.out[Len(walk.out)] = Diag("has a non-uniform definition", walk.id, 0)
  /\ (walk.at \in {"head", "chain"} /\ walk.start_type = "kIDBlock")
       => /\ walk.hops <= MaxHops
          /\ RootReports = {}

\* a walk from a block has returned after passing through a value that is
\* no root
C22_Witness ==
  /\ walk.at = "done"
  /\ walk.start_type = "kIDBlock"
  /\ \E i \in DOMAIN walk.out : walk.out[i].message = "uses in its definition"

\* BuildModule has yielded a module
Decoded == cfg.name # "none"

\* C23: Linter::Run has returned false exactly when it has returned and
\* the module could not be built, and then nothing was analysed and no
\* message emitted; whenever it has returned after the module was built it
\* has returned true, whatever messages it emitted
C23_ReturnsFalseOnlyOnBuildFailure ==
  /\ returned = "false" <=> (pc = "exit" /\ ~Decoded)
  /\ returned = "false"
       => /\ ir = NoIR
          /\ reverse_nodes_ = <<>> /\ forward_nodes_ = <<>>
          /\ blocks_ = <<>> /\ values_ = <<>>
          /\ worklist_ = <<>> /\ on_worklist_ = <<>>
          /\ diagnostics = <<>>
  /\ returned = "true" <=> (pc = "exit" /\ Decoded)

\* Linter::Run has returned true after emitting a warning
C23_Witness ==
  /\ returned = "true"
  /\ DerivativeWarnings # {}

\* the blocks of the graph that the traversal from the entry block reaches
ReachableGraphBlocks == DOMAIN reverse_nodes_ \cap Range(ReversePostOrder(cfg))

\* some dependee of block b makes it divergent: its source is a key of
\* blocks_, or it is no entry edge and its condition is a key of values_
HasDivergentDependee(b) ==
  \E i \in DOMAIN reverse_nodes_[b] :
    LET dep == reverse_nodes_[b][i]
    IN \/ dep.source \in DOMAIN blocks_
       \/ (dep.dependence_type # "kEntry" /\ dep.dependent_value_label \in DOMAIN values_)

\* C24: when Run has returned, a block of the graph reachable from the
\* entry is a key of blocks_ exactly when one of its dependees has a
\* divergent source, or is no entry edge and has a divergent condition
C24_BlocksAtFixedPoint ==
  Analysed =>
    \A b \in ReachableGraphBlocks : b \in DOMAIN blocks_ <=> HasDivergentDependee(b)

\* Run has returned with a block that is divergent because a block it
\* depends on is, and with a block of the graph that is not divergent
C24_Witness ==
  /\ Analysed
  /\ \E b \in DOMAIN blocks_ : blocks_[b].id_type = "kIDBlock"
  /\ \E b \in ReachableGraphBlocks : b \notin DOMAIN blocks_

\* the instructions with a result id in the bodies of the blocks reachable
\* from the entry that are not uniform by opcode
Consumers ==
  UNION {{inst \in Range(ir.body[b]) :
            HasResultId(inst) /\ ~InstructionIsNeverDivergent(inst)} :
         b \in Range(ReversePostOrder(cfg))}

\* C25: when Run has returned, every instruction with a result id in a
\* block reachable from the entry that is not uniform by opcode and has an
\* id operand among the keys of values_ or blocks_ is a key of values_
C25_ConsumersOfDivergentIdsAreDivergent ==
  Analysed =>
    \A inst \in Consumers : HasDivergentOperand(inst) => inst.result \in DOMAIN values_

\* Run has returned with a value that is divergent because a block among
\* its operands is
C25_Witness ==
  /\ Analysed
  /\ \E inst \in Consumers :
       /\ HasDivergentOperand(inst)
       /\ inst.result \in DOMAIN values_
       /\ values_[inst.result].id_type = "kIDBlock"

\* the next iteration of Run visits the terminator of block b
TerminatorIsNext(b) ==
  pc = "run" /\ worklist_ # <<>> /\ Head(worklist_) = <<"t", b>>

ReasonNodes(blocks, values) ==
  {<<"b", b>> : b \in DOMAIN blocks} \cup {<<"v", v>> : v \in DOMAIN values}

\* the ids the reason of n refers to: none for a root
ReasonTargets(blocks, values, n) ==
  LET e == IF n[1] = "b" THEN blocks[n[2]] ELSE values[n[2]]
  IN IF e.id = 0 THEN {}
     ELSE {<<IF e.id_type = "kIDBlock" THEN "b" ELSE "v", e.id>>}

RECURSIVE FollowReasons(_, _, _, _)
\* the ids met when the reasons are followed from the ids of from for at
\* most k hops
FollowReasons(blocks, values, from, k) ==
  IF k = 0 \/ from = {} THEN {}
  ELSE LET next == UNION {ReasonTargets(blocks, values, n) :
                            n \in from \cap ReasonNodes(blocks, values)}
       IN next \cup FollowReasons(blocks, values, next, k - 1)

\* every reason refers to a key, and following the reasons from a key
\* never comes back to it
ReasonsAcyclic ==
  \A n \in ReasonNodes(blocks_, values_) :
    /\ ReasonTargets(blocks_, values_, n) \subseteq ReasonNodes(blocks_, values_)
    /\ n \notin FollowReasons(blocks_, values_, {n}, Keys + 1)

\* a key inserted by a step has a reason that refers to a key of before
\* the step
ReasonsReferEarlier ==
  \A n \in ReasonNodes(blocks_', values_') \ ReasonNodes(blocks_, values_) :
    ReasonTargets(blocks_', values_', n) \subseteq ReasonNodes(blocks_, values_)

\* C27: in every state of the analysis the stored reasons are acyclic:
\* every reason that is no root refers to an id inserted by an earlier
\* step, so that no block is its own reason even when it depends on
\* itself, and following the reasons from an id never meets it again
C27_ReasonsAreAcyclic ==
  []ReasonsAcyclic /\ [][ReasonsReferEarlier]_vars

\* a block that is control dependent on itself is divergent
C27_Witness ==
  \E b \in DOMAIN blocks_ :
    /\ \E i \in DOMAIN reverse_nodes_[b] : reverse_nodes_[b][i].source = b
    /\ FollowReasons(blocks_, values_, {<<"b", b>>}, Keys + 1) # {}

\* the reason stored for block b is backed by an edge of the graph
BlockReasonBacked(b) ==
  LET e == blocks_[b]
      deps == reverse_nodes_[b]
  IN /\ b \in DOMAIN reverse_nodes_
     /\ e.id_type = "kIDBlock"
          => /\ e.id \in DOMAIN blocks_
             /\ \E i \in DOMAIN deps : deps[i].source = e.id /\ deps[i].target = b
     /\ e.id_type = "kIDValue"
          => /\ e.id \in DOMAIN values_
             /\ e.source_id \in Blocks(cfg)
             /\ cfg.term[e.source_id].op \in {"OpBranchConditional", "OpSwitch"}
             /\ GetSingleWordInOperand(cfg.term[e.source_id], 0) = e.id
             /\ \E i \in DOMAIN deps :
                  /\ deps[i].source = e.source_id /\ deps[i].target = b
                  /\ deps[i].dependence_type # "kEntry"
                  /\ deps[i].dependent_value_label = e.id

\* the reason stored for value r is a root or names an id operand of the
\* instruction that defines r
ValueReasonBacked(r) ==
  LET e == values_[r]
      def == InstOf(ir, cfg, <<"v", r>>)
  IN /\ <<"v", r>> \in {ModuleInstructions(ir, cfg)[i].key :
                          i \in DOMAIN ModuleInstructions(ir, cfg)}
     /\ e = Root
        \/ /\ e.id \in Range(def.ins)
           /\ e.source_id = 0
           /\ \/ e.id_type = "kIDValue" /\ e.id \in DOMAIN values_
              \/ e.id_type = "kIDBlock" /\ e.id \in DOMAIN blocks_

\* C28: in every state of the analysis each stored reason is backed by
\* the module: a block reason names a divergent dependee of the block, or
\* a divergent condition together with the block whose terminator decides
\* on it and from which a non-entry edge leads to the block; a value
\* reason names a divergent id among the operands of the definition
C28_ReasonsAreBacked ==
  /\ \A b \in DOMAIN blocks_ : BlockReasonBacked(b)
  /\ \A r \in DOMAIN values_ : ValueReasonBacked(r)

\* a block divergent because of a condition, a block divergent because of
\* a block, and a value divergent because of an operand, all in one state
C28_Witness ==
  /\ \E b \in DOMAIN blocks_ : blocks_[b].id_type = "kIDValue"
  /\ \E b \in DOMAIN blocks_ : blocks_[b].id_type = "kIDBlock"
  /\ \E r \in DOMAIN values_ : values_[r] # Root

\* the literals of the (literal, label) pairs in ops whose label is t, in
\* the order of the pairs
RECURSIVE LiteralsFor(_, _)
LiteralsFor(ops, t) ==
  IF Len(ops) < 2 THEN <<>>
  ELSE (IF ops[2] = t THEN <<ops[1]>> ELSE <<>>) \o LiteralsFor(SubSeq(ops, 3, Len(ops)), t)

\* the edge e carries what the switch that ends its source says about the
\* successor t
SwitchEdgeFor(e, t) ==
  LET branch == cfg.term[e.source]
      pairs == SubSeq(branch.ops, 3, Len(branch.ops))
  IN /\ e.switch_case_values = LiteralsFor(pairs, t)
     /\ e.is_switch_default = (t = branch.ops[2])
     /\ e.switch_case_values # <<>> \/ e.is_switch_default

\* C29: a switch-case edge carries the case literals of the switch whose
\* label is the successor the edge was classified for, in declaration
\* order, and is marked default exactly when that successor is the default
\* label; one of the two is always present.  For a local edge the
\* successor is its target, for a retargeted edge a successor its target
\* post-dominates
C29_SwitchCaseEdges ==
  GraphBuilt =>
    \A e \in AllEdges :
       e.dependence_type = "kSwitchCase" =>
         /\ cfg.term[e.source].op = "OpSwitch"
         /\ IF Retargeted(e)
            THEN \E t \in Succs(cfg, e.source) :
                   PostDominates(cfg, e.target, t) /\ SwitchEdgeFor(e, t)
            ELSE SwitchEdgeFor(e, e.target)

\* a switch-case edge with two literals as classified and as retargeted to
\* a block that is no label of the switch
C29_Witness ==
  /\ pc = "done"
  /\ \E e \in AllEdges :
       /\ e.dependence_type = "kSwitchCase" /\ Retargeted(e)
       /\ e.switch_case_values = <<2, 1>> /\ ~e.is_switch_default
  /\ \E e \in AllEdges :
       /\ e.dependence_type = "kSwitchCase" /\ ~Retargeted(e)
       /\ e.switch_case_values = <<2, 1>>

\* the label a conditional branch takes when its condition equals p
TakenWhen(branch, p) == IF p THEN branch.ops[2] ELSE branch.ops[3]

\* C30: a conditional-branch edge from S to X with polarity p carries the
\* condition operand of the terminator of S, and X is or post-dominates
\* the label S branches to when the condition equals p; a retargeted edge
\* differs from the edge classified for that label in its target only
C30_ConditionalBranchEdges ==
  GraphBuilt =>
    \A e \in AllEdges :
       e.dependence_type = "kConditionalBranch" =>
         LET branch == cfg.term[e.source]
             taken == TakenWhen(branch, e.condition_value)
         IN /\ branch.op = "OpBranchConditional"
            /\ e.dependent_value_label = branch.ops[1]
            /\ e.condition_value <=> (taken = branch.ops[2])
            /\ PostDominates(cfg, e.target, taken)
            /\ e.target # taken =>
                 \E d \in AllEdges : d.target = taken /\ e = [d EXCEPT !.target = e.target]

\* retargeted edges of both polarities next to edges that were not moved
C30_Witness ==
  /\ pc = "done"
  /\ \E e \in AllEdges :
       e.dependence_type = "kConditionalBranch" /\ Retargeted(e) /\ e.condition_value
  /\ \E e \in AllEdges :
       e.dependence_type = "kConditionalBranch" /\ Retargeted(e) /\ ~e.condition_value
  /\ \E e \in AllEdges :
       e.dependence_type = "kConditionalBranch" /\ ~Retargeted(e)

\* C31: in a function all of whose blocks reach the exit no assertion of
\* the classification fires while the graph is built, and every edge with
\* a real source starts at a conditional branch with two different labels
\* or at a switch, one of whose labels the edge was classified for
C31_ClassificationNeverAsserts ==
  EveryBlockReachesExit(cfg) =>
    /\ ~asserted
    /\ \A e \in AllEdgesOf(reverse_nodes_) :
         e.source # kPseudoEntryBlock =>
           LET branch == cfg.term[e.source]
           IN /\ branch.op \in {"OpBranchConditional", "OpSwitch"}
              /\ branch.op = "OpBranchConditional" => branch.ops[2] # branch.ops[3]
              /\ \E t \in Succs(cfg, e.source) : PostDominates(cfg, e.target, t)

\* a finished graph of a function with a conditional branch whose labels
\* coincide, which has no edge, and a conditional branch whose labels
\* differ, which has one
C31_Witness ==
  /\ pc = "done"
  /\ EveryBlockReachesExit(cfg)
  /\ \E b \in Blocks(cfg) :
       /\ cfg.term[b].op = "OpBranchConditional"
       /\ cfg.term[b].ops[2] = cfg.term[b].ops[3]
       /\ \A e \in AllEdges : e.source # b
  /\ \E e \in AllEdges : e.dependence_type = "kConditionalBranch"

\* the entry block of the function and the blocks that strictly
\* post-dominate it: its ancestors in the post-dominator tree
PostDominatorsOfEntry ==
  {cfg.order[1]} \cup {b \in Blocks(cfg) : <<b, cfg.order[1]>> \in pdom.sdom}

\* the number of entry edges in the reverse list of b
EntryEdgesInto(b) ==
  IF b \in DOMAIN reverse_nodes_
  THEN Cardinality({i \in DOMAIN reverse_nodes_[b] :
                      reverse_nodes_[b][i].dependence_type = "kEntry"})
  ELSE 0

\* C32: after InitializeGraph the entry block and every block that
\* post-dominates it is the target of exactly one entry edge, and no other
\* block is the target of one
C32_EntryEdgeTargets ==
  GraphBuilt =>
    \A b \in Blocks(cfg) \cup {kPseudoEntryBlock} :
       EntryEdgesInto(b) = IF b \in PostDominatorsOfEntry THEN 1 ELSE 0

\* the same for the functions whose entry block reaches an exit
EntryEdgeTargetsWhenEntryReachesExit ==
  (GraphBuilt /\ cfg.order[1] \in pdom.nodes) =>
    \A b \in Blocks(cfg) \cup {kPseudoEntryBlock} :
       EntryEdgesInto(b) = IF b \in PostDominatorsOfEntry THEN 1 ELSE 0

\* the instructions of the module with a never-divergent opcode
NeverDivergent ==
  {inst \in Range(ModuleInstructions(ir, cfg)) : InstructionIsNeverDivergent(inst)}

\* C33: in every state of the analysis, whatever the order of the visits,
\* the result of an instruction with a never-divergent opcode is no key of
\* divergent_values, and a visit of the instruction in that state returns
\* Fixed and leaves both maps as they are
C33_NeverDivergentStaysUniform ==
  \A inst \in NeverDivergent :
     /\ inst.result \notin DOMAIN values_
     /\ pc = "run" =>
          LET v == Visit(reverse_nodes_, inst, blocks_, values_)
          IN v.result = "kResultFixed" /\ v.blocks = blocks_ /\ v.values = values_

\* Run is about to visit a never-divergent instruction whose operand is
\* divergent
C33_Witness ==
  /\ pc = "run"
  /\ worklist_ # <<>>
  /\ \E inst \in NeverDivergent :
       /\ inst.key = Head(worklist_)
       /\ \E i \in DOMAIN inst.ins : inst.ins[i] \in DOMAIN values_

\* C34: in every state of Run no instruction occurs twice in the worklist
\* and the mark of an instruction is set exactly when the instruction is in
\* the worklist.  The instruction being visited has been popped and its
\* mark cleared, so its own successors may enqueue it again
C34_WorklistHasNoDuplicates ==
  /\ \A i \in DOMAIN worklist_, j \in DOMAIN worklist_ :
       worklist_[i] = worklist_[j] => i = j
  /\ \A k \in DOMAIN on_worklist_ \cup Range(worklist_) :
       MapGet(on_worklist_, k, FALSE) <=> k \in Range(worklist_)

\* Run is about to visit the label of a block that depends on itself: the
\* visit makes the block divergent and its successors name the label
C34_Witness ==
  /\ pc = "run"
  /\ worklist_ # <<>>
  /\ LET top == InstOf(ir, cfg, Head(worklist_))
     IN /\ Visit(reverse_nodes_, top, blocks_, values_).result = "kResultChanged"
        /\ top.key \in Range(ForEachSuccessor(ir, cfg, forward_nodes_, top).keys)
        /\ Len(worklist_) > 1

RECURSIVE ReversePassAlone(_, _, _, _)
\* the reverse pass of InitializeGraph over the blocks of todo, begun on
\* the lists and the tally st
ReversePassAlone(g, pd, st, blocks) ==
  IF blocks = <<>> THEN st
  ELSE ReversePassAlone(g, pd,
         [rev |-> MapPut(st.rev, Head(blocks), VisitTreeNode(g, pd, st.rev, Head(blocks))),
          deg |-> TallyTreeNode(g, pd, st.rev, st.deg, Head(blocks))],
         Tail(blocks))

\* the graph InitializeGraph builds for g on a default-constructed graph
GraphAlone(g) ==
  LET pd == PostDominatorTree(g)
      st == ReversePassAlone(g, pd, [rev |-> (kPseudoEntryBlock :> <<>>),
                                     deg |-> (kPseudoEntryBlock :> 1)], PostOrder(pd))
  IN [rev |-> st.rev, fwd |-> ForwardFromReverse(st.rev, st.deg)]

RECURSIVE RunAlone(_, _, _, _)
\* the loop of Run to its end, begun on the maps and the worklist of st
RunAlone(m, g, graph, st) ==
  IF st.q.worklist = <<>> THEN st
  ELSE LET top == InstOf(m, g, Head(st.q.worklist))
           v == Visit(graph.rev, top, st.blocks, st.values)
           popped == [worklist |-> Tail(st.q.worklist),
                      on_worklist |-> MapPut(st.q.on_worklist, top.key, FALSE)]
       IN RunAlone(m, g, graph,
                   [blocks |-> v.blocks, values |-> v.values,
                    q |-> IF v.result = "kResultChanged"
                          THEN EnqueueAll(ForEachSuccessor(m, g, graph.fwd, top).keys, popped)
                          ELSE popped])

\* what an analysis constructed for the function under analysis alone
\* yields: it knows the module-level instructions and this function only
AnalysisAlone ==
  LET m == [ir EXCEPT !.functions = <<>>]
  IN RunAlone(m, cfg, GraphAlone(cfg),
              [blocks |-> <<>>, values |-> <<>>,
               q |-> EnqueueAll(InitialWorklist(m, cfg),
                                [worklist |-> <<>>, on_worklist |-> <<>>])])

\* the last n messages
Last(msgs, n) == SubSeq(msgs, Len(msgs) - n + 1, Len(msgs))

\* C35: when the analysis of a function begins, the graph, the two maps
\* and the worklist are empty, whatever function was analysed before; the
\* maps when Run returns and the warnings reported for the function are
\* those of an analysis of this function alone
C35_AnalysisIsPerFunction ==
  /\ pc = "start" =>
       /\ reverse_nodes_ = <<>> /\ forward_nodes_ = <<>>
       /\ blocks_ = <<>> /\ values_ = <<>>
       /\ worklist_ = <<>> /\ on_worklist_ = <<>>
  /\ pc \in {"analysed", "linted"} =>
       /\ blocks_ = AnalysisAlone.blocks
       /\ values_ = AnalysisAlone.values
  /\ pc = "linted" =>
       LET alone == Warnings(ir, cfg, AnalysisAlone.blocks, AnalysisAlone.values)
       IN /\ Len(alone) <= Len(diagnostics)
          /\ Last(diagnostics, Len(alone)) = alone
          /\ ir.functions # <<>> => diagnostics = alone

\* the second function of a module has been reported: its branch is
\* uniform and none of its blocks divergent, while the function before it
\* had a divergent block and a warning
C35_Witness ==
  /\ pc = "linted"
  /\ ir.functions = <<>>
  /\ cfg.order[1] = 4
  /\ cfg.name = "if"
  /\ blocks_ = <<>>
  /\ values_ # <<>>
  /\ diagnostics # <<>>

\* a step of a walk, or the report of a function with the walks it makes,
\* leaves both maps of the analysis as they are
WalkKeepsMaps ==
  (walk' # walk \/ (pc = "analysed" /\ pc' = "linted")) =>
    (blocks_' = blocks_ /\ values_' = values_)

UniformStorageClasses ==
  {"Uniform", "UniformConstant", "Workgroup", "CrossWorkgroup", "Private",
   "PushConstant", "Image"}

\* the loads of the function from one of these storage classes
UniformLoads ==
  {inst \in Range(FunctionInstructions) :
     inst.op = "OpLoad" /\ inst.sc \in UniformStorageClasses}

\* the reason VisitInstruction records for the first in-operand of inst
\* that is divergent
FirstDivergentOperand(inst) ==
  LET hits == {i \in DOMAIN inst.ins : inst.ins[i] \in DOMAIN values_ \cup DOMAIN blocks_}
      op == inst.ins[CHOOSE i \in hits : \A j \in hits : i <= j]
  IN IF op \in DOMAIN values_ THEN [id_type |-> "kIDValue", id |-> op, source_id |-> 0]
     ELSE [id_type |-> "kIDBlock", id |-> op, source_id |-> 0]

\* C37: a load from Uniform, UniformConstant, Workgroup, CrossWorkgroup,
\* Private, PushConstant or Image storage is no root, with or without the
\* Flat decoration; in no state is its reason the root reason, and when
\* Run has returned its result is a key of values_ exactly when one of its
\* id operands is divergent, the first of them being its reason
C37_UniformStorageLoads ==
  /\ \A sc \in UniformStorageClasses, flat \in BOOLEAN :
       ~InstructionIsDivergent(OpLoad(22, 21, sc, flat))
  /\ \A ld \in UniformLoads :
       /\ ld.result \in DOMAIN values_ => values_[ld.result] # Root
       /\ Analysed =>
            /\ ld.result \in DOMAIN values_ <=> HasDivergentOperand(ld)
            /\ ld.result \in DOMAIN values_ =>
                 values_[ld.result] = FirstDivergentOperand(ld)

\* Run has returned with a load from Uniform storage divergent because of
\* its pointer operand
C37_Witness ==
  /\ pc = "analysed"
  /\ \E ld \in UniformLoads :
       /\ ld.result \in DOMAIN values_
       /\ values_[ld.result].id \in Range(ld.ins)
       /\ values_[values_[ld.result].id] = Root

\* C38: when the reverse pass of InitializeGraph is over, the out-degree
\* tally of every block and of the pseudo-entry is the number of edges
\* that end up in its forward list
C38_TallyIsForwardLength ==
  GraphBuilt =>
    \A b \in DOMAIN forward_nodes_ \cup DOMAIN degree :
       MapGet(degree, b, 0) = Len(MapGet(forward_nodes_, b, <<>>))

\* the tally of a block never exceeds the length of its forward list when
\* the entry block reaches an exit
TallyIsAtMostForwardLength ==
  (GraphBuilt /\ cfg.order[1] \in pdom.nodes) =>
    \A b \in DOMAIN forward_nodes_ \cup DOMAIN degree :
       MapGet(degree, b, 0) <= Len(MapGet(forward_nodes_, b, <<>>))
====
